---- MODULE Spec2Model ----
(***************************************************************************)
(* Vantage7: the retry-and-fallback call wrapper (services/geminiService)  *)
(* and the analysis workflows of the App component (App.tsx) over the      *)
(* session store (services/storageService).                                *)
(*                                                                         *)
(* Texts and error messages are sequences of tokens; a JavaScript          *)
(* s.includes(sub) on a known substring is membership of the token sub.    *)
(***************************************************************************)
EXTENDS Integers, Sequences, FiniteSets, TLC

\* ------------------------------------------------------------------------
\* Text helpers
\* ------------------------------------------------------------------------

\* String.prototype.includes on a known marker substring
Includes(text, tok) == \E i \in 1..Len(text) : text[i] = tok

Last(s) == s[Len(s)]

\* ------------------------------------------------------------------------
\* services/geminiService.ts : withRetry, callGemini, runEngine,
\* runCustomPrompt
\* ------------------------------------------------------------------------

MaxRetries == 3
BaseDelayMs == 2000

FALLBACK_MODEL == "gemini-2.5-flash"
Gemini3Flash == "gemini-3-flash-preview"

\* the models the UI can pass as modelOverride (geminiModel), or none
ModelOverrides == {"", FALLBACK_MODEL, Gemini3Flash}

FallbackMarker == "[Auto-switched to Gemini 2.5 Flash due to quota limits]"
DefaultText == <<"Analysis failed to generate text.">>

\* error messages of the provider (what generateContent rejects with)
ErrResourceExhausted == <<"429", "RESOURCE_EXHAUSTED">>
Err429 == <<"429", "Too Many Requests">>
ErrRateLimitText == <<"rate limit", "reached">>
ErrQuotaText == <<"Quota", "exceeded for metric">>
ErrAuth == <<"403", "API key not valid">>
ErrNetwork == <<"fetch failed">>

ProviderErrors ==
  {ErrResourceExhausted, Err429, ErrRateLimitText, ErrQuotaText, ErrAuth, ErrNetwork}

\* texts of the provider (response.text()), the empty text included
ProviderTexts == {<<>>, <<"T1">>, <<"T2">>}

\* one response of model.generateContent
Responses ==
  [ok : {TRUE}, text : ProviderTexts] \cup [ok : {FALSE}, msg : ProviderErrors]

\* error messages made by the service itself
MsgApiKeyMissing == <<"API Key missing. Please check your .env configuration.">>
MsgQuotaFreeTier == <<"Quota", "Exceeded: You've hit the free tier limit for today.">>
MsgQuotaBoth == <<"Gemini", "Quota", "Exceeded on both models. Please try again tomorrow.">>
MsgQuota == <<"Gemini", "Quota", "Exceeded. Please try again tomorrow.">>

\* withRetry: the error is a rate limit (retried while attempts remain)
IsRateLimit(msg) ==
  \/ Includes(msg, "RESOURCE_EXHAUSTED")
  \/ Includes(msg, "429")
  \/ Includes(msg, "rate limit")

\* variant: the loop gives up one retry early
ShouldRetry_OneFewer(msg, attempt) == IsRateLimit(msg) /\ attempt < MaxRetries - 1
\* withRetry: retry this failure of attempt number `attempt` (0-based)
ShouldRetry(msg, attempt) == IsRateLimit(msg) /\ attempt < MaxRetries

\* variant: the wait grows by the base delay with every attempt
WaitTime_Linear(attempt) == BaseDelayMs * (attempt + 1)
\* withRetry: wait before the retry that follows attempt number `attempt`
WaitTime(attempt) == BaseDelayMs * (2 ^ attempt)

\* withRetry: the error thrown once a failure is not retried
RetryThrown(msg) ==
  IF Includes(msg, "RESOURCE_EXHAUSTED") THEN MsgQuotaFreeTier ELSE msg

\* runEngine / runCustomPrompt catch: the error is a quota error
IsQuotaError(msg) ==
  \/ Includes(msg, "429")
  \/ Includes(msg, "Quota")
  \/ Includes(msg, "RESOURCE_EXHAUSTED")
  \/ Includes(msg, "rate limit")

\* runEngine: const primaryModel = modelOverride || FALLBACK_MODEL
PrimaryModel(override) == IF override = "" THEN FALLBACK_MODEL ELSE override

\* callGemini: const text = response.text() || "Analysis failed to generate text."
TextOrDefault(text) == IF text = <<>> THEN DefaultText ELSE text

\* variant: the fallback's text is returned as it is
WithFallbackMarker_Silent(text) == text
\* runEngine: fallbackResult.text = `[marker]\n\n${fallbackResult.text}`
WithFallbackMarker(text) == <<FallbackMarker>> \o text

\* variant: the fallback is taken whatever the primary model is
UseFallback_AnyPrimary(msg, primary) == IsQuotaError(msg)
\* runEngine catch: take the fallback path for this primary failure
UseFallback(msg, primary) == IsQuotaError(msg) /\ primary # FALLBACK_MODEL

\* runEngine catch: error of the fallback attempt, as rethrown to the caller
FallbackThrown(msg) == MsgQuotaBoth

\* runEngine catch: error of the primary attempt when no fallback is taken
PrimaryThrown(msg) == IF IsQuotaError(msg) THEN MsgQuota ELSE msg


\* ------------------------------------------------------------------------
\* State
\* ------------------------------------------------------------------------

VARIABLES
  \* --- one invocation of runEngine / runCustomPrompt ---
  ipc,        \* "idle", "calling" (a generateContent call is in flight),
              \* "backoff" (withRetry is in its delay), "done"
  ifn,        \* "runEngine" or "runCustomPrompt"
  iprimary,   \* primaryModel of the invocation
  iphase,     \* "primary" or "fallback": which callGemini is running
  iattempt,   \* withRetry's loop variable `attempt`
  ilog,       \* the generateContent calls made so far: [phase, model, resp]
  iwaits,     \* the delays withRetry has slept, in ms
  iresult,    \* what the invocation returned or threw: [ok, val]
  iflight,    \* number of generateContent calls issued and not yet settled
  \* --- App component state (useState) ---
  user, stockSymbol, scanMode, engines, isAnalyzing, isUpdating,
  globalError, history, currentSessionId,
  \* --- store backends and clock ---
  localStore,   \* localStorage[LOCAL_STORAGE_KEY]: a list of sessions
  remoteStore,  \* Firestore users/{uid}/sessions: a set of documents
  clock,        \* the latest value read from Date.now()
  \* --- the analysis in flight (handleAnalyze) ---
  pc,           \* position of the handler (the await it is suspended at)
  cl,           \* values the handler closed over when it was invoked
  workerResults,
  lipc,         \* handleLinkedInGen: the number of its calls in flight
  runs,         \* number of workflows started so far
  \* --- history of the analysis (for stating properties) ---
  invoked,      \* stage calls issued by the current analysis, in order
  ctx,          \* the context argument of its synthesizer call in flight
  lastOutcome,  \* how its latest stage call ended, if it has returned
  saveLog,      \* its saveSession calls: [symbol, engines, existingId, ...]
  runEnd,       \* how the last analysis ended: "none", "completed" (saved),
                \* "unsaved" (its save returned null), "aborted"
  snap,         \* history and stores when the current analysis started
  \* --- session management (saveSession, getSessions, handleDeleteSession) ---
  sret,         \* the latest storage call and what it returned; failed: a read or
                \* a write of the backend failed in the call
  sops,         \* number of storage calls made so far
  dels,         \* handleDeleteSession invocations awaiting deleteSession
  calls,        \* saveSession and getSessions calls that have not resolved
  \* --- the update in flight (handleUpdateReport) ---
  upc,          \* its position: "idle", "updater", "updSynth", "updSave"
  ucl,          \* the values it closed over when it was invoked
  ulv,          \* its local constants: [updaterRes, synthesisContext]
  \* --- history of the update (for stating properties) ---
  uinvoked,     \* stage calls issued by the current update, in order
  ulastOutcome, \* how its latest stage call ended, if it has returned
  usaveLog,     \* its saveSession calls
  urunEnd,      \* how the last update ended, as runEnd
  usnap,        \* history and stores when the current update started
  \* --- one application of a helper function ---
  pfn,          \* "extractMetadata", "sources" or "none"
  parg,         \* its argument
  pout,         \* what it returned, once applied
  \* --- handleLogin, handleLogout ---
  popups,       \* number of signInWithPopup calls awaited
  signouts,     \* number of auth.signOut() calls awaited
  \* --- the user ---
  gestures      \* number of gestures (keys, clicks) of the user counted so far

invVars == <<ipc, ifn, iprimary, iphase, iattempt, ilog, iwaits, iresult, iflight>>
uiVars == <<user, stockSymbol, scanMode, engines, isAnalyzing, isUpdating,
            globalError, history, currentSessionId>>
storeVars == <<localStore, remoteStore, clock>>
flowVars == <<pc, cl, workerResults, lipc, runs>>
ghostVars == <<invoked, ctx, lastOutcome, saveLog, runEnd, snap>>
sessVars == <<sret, sops, dels, calls>>
updVars == <<upc, ucl, ulv>>
ughostVars == <<uinvoked, ulastOutcome, usaveLog, urunEnd, usnap>>
pureVars == <<pfn, parg, pout>>
authVars == <<popups, signouts>>
appVars == <<uiVars, storeVars, flowVars, ghostVars, sessVars, updVars, ughostVars,
             pureVars, authVars, gestures>>
vars == <<invVars, appVars>>


\* an optional value (null / undefined in the source) is the empty set
None == {}
Some(v) == {v}
TheValue(opt) == CHOOSE v \in opt : TRUE

\* ------------------------------------------------------------------------
\* runEngine / runCustomPrompt as a step machine: one step per
\* generateContent call that returns and per backoff delay that elapses
\* ------------------------------------------------------------------------

InvInit ==
  /\ ipc = "idle"
  /\ ifn = "runEngine"
  /\ iprimary = FALLBACK_MODEL
  /\ iphase = "primary"
  /\ iattempt = 0
  /\ ilog = <<>>
  /\ iwaits = <<>>
  /\ iresult = None
  /\ iflight = 0

\* callGemini(modelId): the model of the running phase
CurrentModel == IF iphase = "primary" THEN iprimary ELSE FALLBACK_MODEL

\* callGemini returns: the text handed back by runEngine for this phase
ReturnedText(phase, text) ==
  IF phase = "fallback" THEN WithFallbackMarker(TextOrDefault(text))
  ELSE TextOrDefault(text)

\* runEngine(...) / runCustomPrompt(...) is invoked: the api-key guard,
\* the choice of the primary model and the first generateContent call
InvStart(fn, override, keyOk) ==
  /\ ipc \in {"idle", "done"}
  /\ ifn' = fn
  /\ iprimary' = PrimaryModel(override)
  /\ iphase' = "primary"
  /\ iattempt' = 0
  /\ ilog' = <<>>
  /\ iwaits' = <<>>
  /\ IF keyOk
       THEN /\ ipc' = "calling"
            /\ iresult' = None
            /\ iflight' = iflight + 1
       ELSE /\ ipc' = "done"
            /\ iresult' = Some([ok |-> FALSE, val |-> MsgApiKeyMissing])
            /\ iflight' = iflight

\* the generateContent call in flight returns `resp`: withRetry's try/catch,
\* then callGemini's return or runEngine's catch
InvCallReturn(resp) ==
  /\ ipc = "calling"
  /\ iflight > 0
  /\ iflight' = (iflight - 1) +
                  (IF /\ ~resp.ok
                      /\ ~ShouldRetry(resp.msg, iattempt)
                      /\ iphase = "primary"
                      /\ UseFallback(RetryThrown(resp.msg), iprimary)
                     THEN 1 ELSE 0)
  /\ ilog' = Append(ilog, [phase |-> iphase, model |-> CurrentModel, resp |-> resp])
  /\ UNCHANGED <<ifn, iprimary>>
  /\ IF resp.ok
       THEN /\ ipc' = "done"
            /\ iresult' = Some([ok |-> TRUE, val |-> ReturnedText(iphase, resp.text)])
            /\ UNCHANGED <<iphase, iattempt, iwaits>>
       ELSE IF ShouldRetry(resp.msg, iattempt)
         THEN /\ ipc' = "backoff"
              /\ iwaits' = Append(iwaits, WaitTime(iattempt))
              /\ UNCHANGED <<iphase, iattempt, iresult>>
         ELSE LET thrown == RetryThrown(resp.msg) IN
              IF iphase = "primary" /\ UseFallback(thrown, iprimary)
                THEN /\ ipc' = "calling"
                     /\ iphase' = "fallback"
                     /\ iattempt' = 0
                     /\ UNCHANGED <<iwaits, iresult>>
                ELSE /\ ipc' = "done"
                     /\ iresult' = Some([ok |-> FALSE,
                                         val |-> IF iphase = "primary"
                                                   THEN PrimaryThrown(thrown)
                                                   ELSE FallbackThrown(thrown)])
                     /\ UNCHANGED <<iphase, iattempt, iwaits>>

\* variant: the retry is issued while the failed call's successor is still
\* awaited, without waiting for the delay
InvBackoffElapse_Overlap ==
  /\ ipc = "calling"
  /\ iattempt < MaxRetries
  /\ ipc' = "calling"
  /\ iattempt' = iattempt + 1
  /\ iflight' = iflight + 1
  /\ UNCHANGED <<ifn, iprimary, iphase, ilog, iwaits, iresult>>
\* withRetry: await delay(waitTime); continue
InvBackoffElapse ==
  /\ ipc = "backoff"
  /\ ipc' = "calling"
  /\ iattempt' = iattempt + 1
  /\ iflight' = iflight + 1
  /\ UNCHANGED <<ifn, iprimary, iphase, ilog, iwaits, iresult>>


\* ------------------------------------------------------------------------
\* constants.ts, types.ts : the engine catalog
\* ------------------------------------------------------------------------

EngineIds ==
  {"planner", "librarian", "business", "quant", "forensic", "valuation",
   "technical", "updater", "linkedin", "synthesizer", "custom", "comprehensive"}

\* ENGINE_CONFIGS[id].name
EngineName(id) ==
  CASE id = "planner" -> "Engine 1: The Lead Strategist"
    [] id = "librarian" -> "Engine 2: The Data Hunter"
    [] id = "business" -> "Engine 3A: The Business Analyst"
    [] id = "quant" -> "Engine 3B: The Fund Manager"
    [] id = "forensic" -> "Engine 3C: The Forensic Auditor"
    [] id = "valuation" -> "Engine 3D: The Valuer"
    [] id = "technical" -> "Engine 3E: The Trader"
    [] id = "updater" -> "Engine 4: The Sentinel"
    [] id = "linkedin" -> "Engine 5: The Influencer"
    [] id = "synthesizer" -> "Engine 6: The Synthesizer"
    [] id = "custom" -> "Engine 7: Custom Hypothesis"
    [] id = "comprehensive" -> "Engine 8: The Deep Analyzer (Single Shot)"

\* handleAnalyze: const workerIds
workerIds == <<"business", "quant", "forensic", "valuation", "technical", "custom">>

\* ------------------------------------------------------------------------
\* What a stage call (runEngine / runCustomPrompt) hands to the App
\* ------------------------------------------------------------------------

FailedMarker == "[Analysis Failed"

\* texts a stage call can resolve with; a model may echo any words,
\* the words "[Analysis Failed" included
EngineTexts == {<<"T1">>, <<FailedMarker, "T2">>}

\* errors a stage call can reject with
EngineErrors == {MsgQuota}

EngineOutcomes == [ok : {TRUE}, val : EngineTexts] \cup [ok : {FALSE}, val : EngineErrors]

\* the outcomes told apart where the words of the text play no part: one
\* text, or an error
PlainOutcomes == {r \in EngineOutcomes : r.ok => r.val = <<"T1">>}

\* ------------------------------------------------------------------------
\* App.tsx : state helpers
\* ------------------------------------------------------------------------

NoUser == ""
DemoUser == "demo-mode-user"
RealUser == "u1"
Users == {NoUser, DemoUser, RealUser}

NoId == 0

\* buildInitialState: { id, name, role, status: 'idle', result: null }; the
\* entry has no key 'error'
InitialEngine == [status |-> "idle", result |-> None]
buildInitialState == [id \in EngineIds |-> InitialEngine]

\* updateEngineStatus: [id]: { ...prev[id], status, result, error, usage, sources };
\* the entry has the key 'error', with None when no message is passed
updateEngineStatus(prev, id, status, result, error) ==
  [prev EXCEPT ![id] = [status |-> status, result |-> result, error |-> error]]

\* { ...engines.x, status: 'success', result: text, usage, sources }:
\* the spread keeps every field of the closed-over entry that is not named
SpreadSuccess(entry, text) ==
  [entry EXCEPT !.status = "success", !.result = Some(text)]

\* run.error: the message of an entry, None when the entry has no key
\* 'error' or holds no message under it
ErrorOf(run) == IF "error" \in DOMAIN run THEN run.error ELSE None

\* a string of the App (the subject input, a label): the sequence of its
\* pieces, joined by one blank between two of them. A piece is a word
\* without a blank or a run of blanks: the empty run "" (between two
\* consecutive blanks, before a blank at the start, after a blank at the
\* end) or one blank " ". <<>> is the empty string. The strings of the
\* model are written with the empty run only, as split(' ') gives them
BlankPiece(w) == w \in {"", " "}
\* the string has no character
IsEmptyString(str) == str = <<>> \/ str = <<"">>
SymReliance == <<"reliance">>
\* 'hdfcbank  Vs.  icicibank', two blanks on each side of the separator
SymComparison == <<"hdfcbank", "", "Vs.", "", "icicibank">>
SymBlank == <<>>
\* one blank
SymBlanksOnly == <<"", "">>
\* '  vs tcs': two blanks before the separator and nothing else, so the
\* first stock of the comparison is the empty string
SymNoFirstStock == <<"", "", "vs", "tcs">>
Symbols == {SymReliance, SymComparison}
\* what is typed into the subject input: a subject, a comparison (also one
\* that lacks its first stock), or blanks only
TypedSubjects == Symbols \cup {SymNoFirstStock, SymBlanksOnly}
\* the subjects of the quick-pick buttons of the hero: the first of
\* ['RELIANCE', 'TATAELXSI', 'ZOMATO', 'HDFCBANK']
QuickPicks == {<<"RELIANCE">>}
\* the symbols of the cards of the watchlist (added by the user, trimmed and
\* in upper case; '.NS' and '.BO' are removed for the button)
WatchlistSymbols == {<<"RELIANCE">>}

\* String.prototype.trim on a subject: the blanks at its two ends are
\* removed (the runs of blanks there and the blanks that join them), those
\* between two words stay
trim(sym) ==
  LET words == {i \in 1..Len(sym) : ~BlankPiece(sym[i])}
  IN IF words = {} THEN <<>>
     ELSE SubSeq(sym, CHOOSE i \in words : \A j \in words : i <= j,
                      CHOOSE i \in words : \A j \in words : i >= j)

\* String.prototype.toUpperCase on one character: the letters a..z are
\* mapped to A..Z, every other character of the inputs (upper-case letters,
\* digits, punctuation) is its own upper case
ToUpperChar(c) ==
  CASE c = "a" -> "A" [] c = "b" -> "B" [] c = "c" -> "C" [] c = "d" -> "D"
    [] c = "e" -> "E" [] c = "f" -> "F" [] c = "g" -> "G" [] c = "h" -> "H"
    [] c = "i" -> "I" [] c = "j" -> "J" [] c = "k" -> "K" [] c = "l" -> "L"
    [] c = "m" -> "M" [] c = "n" -> "N" [] c = "o" -> "O" [] c = "p" -> "P"
    [] c = "q" -> "Q" [] c = "r" -> "R" [] c = "s" -> "S" [] c = "t" -> "T"
    [] c = "u" -> "U" [] c = "v" -> "V" [] c = "w" -> "W" [] c = "x" -> "X"
    [] c = "y" -> "Y" [] c = "z" -> "Z"
    [] OTHER -> c
\* String.prototype.toUpperCase on one word, character by character
RECURSIVE UpperFrom(_, _)
UpperFrom(w, i) ==
  IF i > Len(w) THEN ""
  ELSE ToUpperChar(SubSeq(w, i, i)) \o UpperFrom(w, i + 1)
ToUpperWord(w) == UpperFrom(w, 1)
\* String.prototype.toUpperCase on a subject, word by word
toUpperCase(sym) == [i \in 1..Len(sym) |-> ToUpperWord(sym[i])]

\* /^(.+?)\s+vs\.?\s+(.+)$/i : the separator is the word "vs" in any mix of
\* cases, with or without a dot, between two blanks; (.+?) needs at least
\* one character before the blank in front of it and (.+) at least one
\* after the blank behind it (a blank counts as a character)
VsWords == {v \o d : v \in {"vs", "vS", "Vs", "VS"}, d \in {"", "."}}
VsPositions(sym) ==
  {i \in 2..(Len(sym) - 1) :
     /\ sym[i] \in VsWords
     /\ ~IsEmptyString(SubSeq(sym, 1, i - 1))
     /\ ~IsEmptyString(SubSeq(sym, i + 1, Len(sym)))}
vsMatch(sym) == VsPositions(sym) # {}
\* the lazy first group ends at the first separator the regex can match at
VsAt(sym) == CHOOSE i \in VsPositions(sym) : \A j \in VsPositions(sym) : i <= j
\* vsMatch[1].trim().toUpperCase() and vsMatch[2].trim().toUpperCase()
stockA(sym) == toUpperCase(trim(SubSeq(sym, 1, VsAt(sym) - 1)))
stockB(sym) == toUpperCase(trim(SubSeq(sym, VsAt(sym) + 1, Len(sym))))
\* `${stock}` inside a template: the pieces of the stock, the empty run
\* for the empty string (the blanks around it stay)
Spliced(stock) == IF stock = <<>> THEN <<"">> ELSE stock
\* `${stockA} vs ${stockB}`
ComparisonLabel(sym) == Spliced(stockA(sym)) \o <<"vs">> \o Spliced(stockB(sym))
\* `Analysis of ${stock} complete`
AnalysisOfComplete(stock) == <<"Analysis of">> \o Spliced(stock) \o <<"complete">>
\* `${stockA} vs ${stockB} Head-to-Head`
HeadToHead(sym) == ComparisonLabel(sym) \o <<"Head-to-Head">>

MsgAuthUnavailable ==
  <<"Authentication Unavailable: Switched to Offline Guest Mode. History will be saved locally.">>
MsgLoginCancelled == <<"Login cancelled by user.">>
MsgLoginFailed == <<"Login failed. Please try again.">>

\* `[Analysis Failed: ${message}]`
FailedResult(msg) == <<FailedMarker>> \o msg \o <<"]">>

\* workerResults.filter(r => !r.result.includes('[Analysis Failed'))
SelectReported(results) == SelectSeq(results, LAMBDA r : ~Includes(r.result, FailedMarker))

\* .map(r => `--- REPORT FROM ${ENGINE_CONFIGS[r.id].name} ---\n${r.result}\n`)
synthesisContext(results) ==
  LET kept == SelectReported(results) IN
  [i \in 1..Len(kept) |-> [name |-> EngineName(kept[i].id), text |-> kept[i].result]]

\* handleUpdateReport: the synthesizer's context
updateContext(previousSummary, updaterText) ==
  <<[name |-> "PREVIOUS REPORT", text |-> previousSummary],
    [name |-> "UPDATER ENGINE FINDINGS", text |-> updaterText]>>


\* ------------------------------------------------------------------------
\* services/storageService.ts : saveSession
\* ------------------------------------------------------------------------

LocalCap == 20
MaxClock == 25
MaxRuns == 2
MaxOps == 2
MaxPending == 2
MaxGestures == 4

\* variant: the demo user is routed to the durable store as well
IsDurable_DemoToo(userId) == userId # NoUser
\* if (userId && userId !== 'demo-mode-user')
IsDurable(userId) == userId # NoUser /\ userId # DemoUser

\* Date.now(): the value read last when no millisecond has passed since,
\* else a later one; readings are compared for order and equality only (the
\* clock is followed up to MaxClock)
DateNow(last) == {t \in {last, last + 1} : t <= MaxClock}

\* the two readings of saveSession, for the id (existingId || Date.now(),
\* read only without an existingId) and then for the timestamp
SaveReadings(existingId) ==
  {r \in (clock..(clock + 2)) \X (clock..(clock + 2)) :
     /\ r[1] \in (IF existingId # NoId THEN {clock} ELSE DateNow(clock))
     /\ r[2] \in DateNow(r[1])}

\* const id = existingId || Date.now().toString()
SessionId(existingId, idNow) == IF existingId # NoId THEN existingId ELSE idNow

\* const newSession = { id, symbol: symbol.toUpperCase(), timestamp: Date.now(),
\* engines, ... }
NewSession(symbol, eng, existingId, idNow, now) ==
  [id |-> SessionId(existingId, idNow), symbol |-> toUpperCase(symbol),
   timestamp |-> now, engines |-> eng]

\* sessions.findIndex(s => s.id === id)
IndexOfId(sessions, id) ==
  IF \E i \in 1..Len(sessions) : sessions[i].id = id
    THEN CHOOSE i \in 1..Len(sessions) :
           sessions[i].id = id /\ \A j \in 1..(i - 1) : sessions[j].id # id
    ELSE 0

\* local branch: replace in place or unshift, then pop beyond the cap
LocalUpsert(sessions, session) ==
  LET idx == IndexOfId(sessions, session.id)
      put == IF idx > 0 THEN [sessions EXCEPT ![idx] = session]
             ELSE <<session>> \o sessions
  IN IF Len(put) > LocalCap THEN SubSeq(put, 1, Len(put) - 1) ELSE put

\* Firestore's merge of one map into a stored one: a key the new map names
\* takes the new value, a key it does not name keeps the stored value
MergeFields(old, new) ==
  [k \in DOMAIN old \cup DOMAIN new |-> IF k \in DOMAIN new THEN new[k] ELSE old[k]]
\* the same on the engines map, whose values are maps themselves
MergeEngines(old, new) ==
  [id \in DOMAIN old \cup DOMAIN new |->
     IF id \notin DOMAIN new THEN old[id]
     ELSE IF id \notin DOMAIN old THEN new[id]
     ELSE MergeFields(old[id], new[id])]
\* durable branch: doc(id).set(cleanSession, { merge: true }); cleanSession
\* names id, symbol, timestamp and engines, and in an entry of engines every
\* key the entry has (sanitizeForFirestore writes an undefined value as null)
RemoteSet(docs, session) ==
  IF \E d \in docs : d.id = session.id
    THEN LET old == CHOOSE d \in docs : d.id = session.id
         IN (docs \ {old}) \cup
            {[session EXCEPT !.engines = MergeEngines(old.engines, session.engines)]}
    ELSE docs \cup {session}

\* JSON.stringify of the local list: a key whose value is undefined is left
\* out, so a stored entry has the key 'error' only with a message
JsonEntry(run) ==
  IF "error" \in DOMAIN run /\ run.error = None
    THEN [status |-> run.status, result |-> run.result]
    ELSE run
JsonSession(session) ==
  [session EXCEPT !.engines = [id \in DOMAIN session.engines |->
                                 JsonEntry(session.engines[id])]]
Stringify(sessions) == [i \in 1..Len(sessions) |-> JsonSession(sessions[i])]

\* getLocalSessionsInternal: the stored list, or [] when it cannot be read
getLocalSessionsInternal(stored, readOk) == IF readOk THEN stored ELSE <<>>

\* saveSession, local branch: the list read, the session put into it, the
\* list cut at the cap and written back as JSON
LocalSave(stored, readOk, session) ==
  Stringify(LocalUpsert(getLocalSessionsInternal(stored, readOk), session))

\* collection("sessions").orderBy("timestamp", "desc").get()
RECURSIVE OrderByTimestampDesc(_)
OrderByTimestampDesc(docs) ==
  IF docs = {} THEN <<>>
  ELSE LET newest == CHOOSE d \in docs : \A e \in docs : e.timestamp <= d.timestamp
       IN <<newest>> \o OrderByTimestampDesc(docs \ {newest})

\* getSessions: the owner's sessions, [] when the backend cannot be read
getSessions(userId, stored, docs, readOk) ==
  IF IsDurable(userId)
    THEN IF readOk THEN OrderByTimestampDesc(docs) ELSE <<>>
    ELSE getLocalSessionsInternal(stored, readOk)

\* deleteSession, local branch: getLocalSessionsInternal().filter(s => s.id !== sessionId),
\* written back as JSON
DeleteLocal(stored, readOk, sessionId) ==
  Stringify(SelectSeq(getLocalSessionsInternal(stored, readOk), LAMBDA s : s.id # sessionId))

\* deleteSession, durable branch: doc(sessionId).delete()
DeleteRemote(docs, sessionId) == {d \in docs : d.id # sessionId}

\* ------------------------------------------------------------------------
\* App.tsx : caller-side reconciliation of the history
\* ------------------------------------------------------------------------

\* variant: the filter looks at the id only
ReconcileNew_ById(prev, session) ==
  <<session>> \o SelectSeq(prev, LAMBDA h : h.id # session.id)
\* prev.filter(s => s.id !== newSession.id && s.symbol !== newSession.symbol)
\* then [newSession, ...filtered]
ReconcileNew(prev, session) ==
  <<session>> \o SelectSeq(prev, LAMBDA h : h.id # session.id /\ h.symbol # session.symbol)

\* prev.findIndex(s => s.symbol === updatedSession.symbol)
IndexOfSymbol(sessions, symbol) ==
  IF \E i \in 1..Len(sessions) : sessions[i].symbol = symbol
    THEN CHOOSE i \in 1..Len(sessions) :
           sessions[i].symbol = symbol /\ \A j \in 1..(i - 1) : sessions[j].symbol # symbol
    ELSE 0

\* handleUpdateReport: replace at the index found, else prepend
ReconcileUpdated(prev, session) ==
  LET idx == IndexOfSymbol(prev, session.symbol)
  IN IF idx > 0 THEN [prev EXCEPT ![idx] = session] ELSE <<session>> \o prev

\* ------------------------------------------------------------------------
\* App : initial state
\* ------------------------------------------------------------------------

NoLocals == [updaterRes |-> <<>>, synthesisContext |-> <<>>]
NoClosure ==
  [user |-> NoUser, engines |-> buildInitialState, currentSessionId |-> NoId,
   stockSymbol |-> SymBlank]

StoreSnapshot == [history |-> history, localStore |-> localStore, remoteStore |-> remoteStore]
NoSnapshot == [history |-> <<>>, localStore |-> <<>>, remoteStore |-> {}]

\* no handler is in flight and no storage call is pending
Quiescent ==
  /\ isAnalyzing = FALSE
  /\ isUpdating = FALSE
  /\ globalError = None
  /\ pc = "idle"
  /\ cl = NoClosure
  /\ workerResults = <<>>
  /\ lipc = 0
  /\ runs = 0
  /\ invoked = <<>>
  /\ ctx = <<>>
  /\ lastOutcome = None
  /\ saveLog = <<>>
  /\ runEnd = "none"
  /\ snap = NoSnapshot
  /\ sret = [op |-> "none", existingId |-> NoId, ok |-> TRUE, failed |-> FALSE,
            session |-> None, list |-> <<>>]
  /\ sops = 0
  /\ dels = <<>>
  /\ calls = <<>>
  /\ upc = "idle"
  /\ ucl = NoClosure
  /\ ulv = NoLocals
  /\ uinvoked = <<>>
  /\ ulastOutcome = None
  /\ usaveLog = <<>>
  /\ urunEnd = "none"
  /\ usnap = NoSnapshot
  /\ popups = 0
  /\ signouts = 0

AppCoreInit ==
  /\ user \in Users
  /\ stockSymbol = SymBlank
  /\ scanMode = "quick"
  /\ engines = buildInitialState
  /\ history = <<>>
  /\ currentSessionId = NoId
  /\ localStore = <<>>
  /\ remoteStore = {}
  /\ clock = 1
  /\ Quiescent
  /\ gestures = 0

\* the App after construction; no helper is being applied
AppInit ==
  /\ AppCoreInit
  /\ pfn = "none"
  /\ parg = None
  /\ pout = None


\* ------------------------------------------------------------------------
\* The event loop
\* ------------------------------------------------------------------------

\* the local branch of the storage service has no await: when a handler
\* awaits such a call, its continuation is queued as a microtask and runs
\* before any other handler or callback
MicrotaskPending ==
  \/ pc = "save" /\ ~IsDurable(cl.user)
  \/ upc = "updSave" /\ ~IsDurable(ucl.user)
  \/ \E k \in 1..Len(dels) : ~IsDurable(dels[k].userId)
  \/ \E k \in 1..Len(calls) : ~IsDurable(calls[k].userId)

\* the continuation of a storage call made for userId may run now
Turn(userId) == IsDurable(userId) => ~MicrotaskPending

\* ------------------------------------------------------------------------
\* App.tsx : handleAnalyze
\* ------------------------------------------------------------------------

\* the submit button, rendered for a user: disabled={isAnalyzing || isUpdating
\* || !stockSymbol}
SubmitEnabled(analyzing, updating, subject) ==
  ~analyzing /\ ~updating /\ ~IsEmptyString(subject)
CanSubmit == user # NoUser /\ SubmitEnabled(isAnalyzing, isUpdating, stockSymbol)

\* the hero with the quick-pick buttons: !isAnalyzing && !engines.synthesizer.result
\* (on the home view)
HeroShown == ~isAnalyzing /\ engines["synthesizer"].result = None

\* the first stage of the variant chosen by the input shape and scanMode
FirstPc(sym, mode) ==
  IF vsMatch(sym) /\ mode = "quick" THEN "cmpA"
  ELSE IF mode = "quick" THEN "quick" ELSE "planner"
FirstSlot(sym, mode) ==
  IF vsMatch(sym) /\ mode = "quick" THEN "planner"
  ELSE IF mode = "quick" THEN "comprehensive" ELSE "planner"
FirstEngine(sym, mode) ==
  IF mode = "quick" THEN "comprehensive" ELSE "planner"

\* handleAnalyze up to its first await, on the subject and the mode of the
\* render it was created in: without a user the message is set and then
\* cleared by handleLogin, which opens the popup; on a blank subject nothing
\* is done; else the state is reset and the first stage call is issued
\* (workflows are followed up to MaxRuns)
handleAnalyze(sym, mode) ==
  IF user = NoUser
    THEN /\ globalError' = None
         /\ popups' = popups + 1
         /\ UNCHANGED <<engines, isAnalyzing, currentSessionId, pc, cl, runs, ghostVars>>
    ELSE IF trim(sym) = SymBlank
      THEN UNCHANGED <<globalError, engines, isAnalyzing, currentSessionId, pc, cl,
                       runs, ghostVars, popups>>
      ELSE /\ runs < MaxRuns
           /\ isAnalyzing' = TRUE
           /\ globalError' = None
           /\ currentSessionId' = NoId
           /\ cl' = [user |-> user, engines |-> engines,
                     currentSessionId |-> currentSessionId, stockSymbol |-> sym]
           /\ engines' = updateEngineStatus(buildInitialState, FirstSlot(sym, mode),
                                            "loading", None, None)
           /\ pc' = FirstPc(sym, mode)
           /\ runs' = runs + 1
           /\ invoked' = <<FirstEngine(sym, mode)>>
           /\ ctx' = <<>>
           /\ lastOutcome' = None
           /\ saveLog' = <<>>
           /\ runEnd' = "none"
           /\ snap' = StoreSnapshot
           /\ UNCHANGED popups

\* the subject input: onChange={(e) => setStockSymbol(e.target.value)},
\* disabled={isAnalyzing || isUpdating}
TypeSubject(sym) ==
  /\ ~isAnalyzing
  /\ ~isUpdating
  /\ stockSymbol' = sym
  /\ UNCHANGED <<user, scanMode, engines, isAnalyzing, isUpdating, globalError,
                 history, currentSessionId, storeVars, flowVars, ghostVars, sessVars,
                 updVars, ughostVars, authVars>>

\* the Deep Analyze button of a card of the watchlist (markets view):
\* setStockSymbol(cleanSym); setCurrentView('home'); requestSubmit() on the
\* first form of the document, which in this view is the watchlist form
MarketDeepAnalyze(sym) ==
  /\ stockSymbol' = sym
  /\ UNCHANGED <<user, scanMode, engines, isAnalyzing, isUpdating, globalError,
                 history, currentSessionId, storeVars, flowVars, ghostVars, sessVars,
                 updVars, ughostVars, authVars>>

\* the Quick Scan and Deep Dive buttons, of the form and of the report:
\* onClick={() => setScanMode(mode)}, disabled={isAnalyzing}
SetScanMode(mode) ==
  /\ ~isAnalyzing
  /\ scanMode' = mode
  /\ UNCHANGED <<user, stockSymbol, engines, isAnalyzing, isUpdating, globalError,
                 history, currentSessionId, storeVars, flowVars, ghostVars, sessVars,
                 updVars, ughostVars, authVars>>

\* the form is submitted with the submit button (without a user the form
\* has no submit button): handleAnalyze on the subject and the mode displayed
AnalyzeStart ==
  /\ CanSubmit
  /\ handleAnalyze(stockSymbol, scanMode)
  /\ UNCHANGED <<user, stockSymbol, scanMode, isUpdating, history, storeVars,
                 workerResults, lipc, sessVars, updVars, ughostVars, signouts>>

\* a quick-pick button of the hero: setStockSymbol(s); requestSubmit(). The
\* submit event runs the handleAnalyze of the current render, which holds the
\* subject displayed before the click
QuickPick(s) ==
  /\ HeroShown
  /\ stockSymbol' = s
  /\ handleAnalyze(stockSymbol, scanMode)
  /\ UNCHANGED <<user, scanMode, isUpdating, history, storeVars, workerResults, lipc,
                 sessVars, updVars, ughostVars, signouts>>

\* the Sign In and Login to Start buttons (rendered without a user):
\* handleLogin up to its await
LoginStart ==
  /\ user = NoUser
  /\ globalError' = None
  /\ popups' = popups + 1
  /\ UNCHANGED <<user, stockSymbol, scanMode, engines, isAnalyzing, isUpdating,
                 history, currentSessionId, storeVars, flowVars, ghostVars, sessVars,
                 updVars, ughostVars, signouts>>

\* how signInWithPopup settles: signed in, rejected because the environment
\* does not support it, closed by the user, rejected otherwise with a
\* message or without one
LoginOutcomes == {"signedIn", "unavailable", "cancelled", "failed", "failedNoMessage"}
\* error.message of a rejection
PopupError == <<"Firebase: Error (auth/network-request-failed).">>

\* the auth listener between setUser(currentUser) and loadHistory: it awaits
\* saveUser and getUserData
SyncCall(userId) == [op |-> "sync", userId |-> userId, list |-> None, ok |-> TRUE]
\* a getSessions call of loadHistory that has not read its backend yet
ListCall(userId) == [op |-> "list", userId |-> userId, list |-> None, ok |-> TRUE]

\* one signInWithPopup settles. Signed in: the auth listener sets the user
\* and awaits the sync of the user's profile. Not supported: the catch sets
\* the demo user and the message and loads the local history
\* (getSessions(null) has no await). Else the catch sets the message for the
\* cancellation, the rejection's own message or, without one, the default.
\* readOk: the local list can be read
LoginReturn(outcome, readOk) ==
  /\ popups > 0
  /\ popups' = popups - 1
  /\ CASE outcome = "signedIn" ->
            /\ Len(calls) < MaxPending
            /\ user' = RealUser
            /\ calls' = Append(calls, SyncCall(RealUser))
            /\ UNCHANGED <<globalError, history>>
       [] outcome = "unavailable" ->
            /\ user' = DemoUser
            /\ globalError' = Some(MsgAuthUnavailable)
            /\ history' = getSessions(NoUser, localStore, remoteStore, readOk)
            /\ UNCHANGED calls
       [] outcome = "cancelled" ->
            /\ globalError' = Some(MsgLoginCancelled)
            /\ UNCHANGED <<user, history, calls>>
       [] outcome = "failed" ->
            /\ globalError' = Some(PopupError)
            /\ UNCHANGED <<user, history, calls>>
       [] outcome = "failedNoMessage" ->
            /\ globalError' = Some(MsgLoginFailed)
            /\ UNCHANGED <<user, history, calls>>
  /\ UNCHANGED <<stockSymbol, scanMode, engines, isAnalyzing, isUpdating,
                 currentSessionId, storeVars, flowVars, ghostVars, sret, sops, dels,
                 updVars, ughostVars, signouts>>

\* the auth listener goes on after await saveUser(currentUser) and await
\* getUserData(currentUser.uid), which catch their failures:
\* loadHistory(currentUser.uid) up to its await
ListenerLoadHistory(k) ==
  /\ k \in 1..Len(calls)
  /\ calls[k].op = "sync"
  /\ calls' = [calls EXCEPT ![k] = ListCall(calls[k].userId)]
  /\ UNCHANGED <<uiVars, storeVars, flowVars, ghostVars, sret, sops, dels, updVars,
                 ughostVars, authVars>>

\* the Sign Out button (rendered for a user): handleLogout up to its await
\* of auth.signOut()
LogoutStart ==
  /\ user # NoUser
  /\ signouts' = signouts + 1
  /\ UNCHANGED <<uiVars, storeVars, flowVars, ghostVars, sessVars, updVars, ughostVars,
                 popups>>

\* one auth.signOut() has resolved: setUser(null); setEngines(buildInitialState());
\* setStockSymbol(''); setCurrentSessionId(undefined); loadHistory(null), whose
\* getSessions(null) reads the local list without an await
LogoutReturn(readOk) ==
  /\ signouts > 0
  /\ signouts' = signouts - 1
  /\ user' = NoUser
  /\ engines' = buildInitialState
  /\ stockSymbol' = SymBlank
  /\ currentSessionId' = NoId
  /\ history' = getSessions(NoUser, localStore, remoteStore, readOk)
  /\ UNCHANGED <<scanMode, isAnalyzing, isUpdating, globalError, storeVars, flowVars,
                 ghostVars, sessVars, updVars, ughostVars, popups>>

\* variant: the catch block does not report the error
AnalyzeCatch_Quiet(msg) ==
  /\ globalError' = globalError
  /\ engines' = updateEngineStatus(engines, "comprehensive", "error", None, Some(msg))
  /\ isAnalyzing' = FALSE
  /\ pc' = "idle"
  /\ runEnd' = "aborted"
\* catch (error) { setGlobalError(message); updateEngineStatus('comprehensive',
\* 'error', null, message) } finally { setIsAnalyzing(false) }
AnalyzeCatch(msg) ==
  /\ globalError' = Some(msg)
  /\ engines' = updateEngineStatus(engines, "comprehensive", "error", None, Some(msg))
  /\ isAnalyzing' = FALSE
  /\ pc' = "idle"
  /\ runEnd' = "aborted"

\* what no step of an analysis touches between its start and its save
fixedVars == <<user, stockSymbol, scanMode, isUpdating, localStore, remoteStore,
               history, currentSessionId, cl, lipc, runs, snap, sessVars, updVars,
               ughostVars, authVars>>

\* a saveSession call: its arguments and the values it reads from Date.now()
\* when it is entered, before its first await
SaveCall(symbol, eng, existingId, readings) ==
  [symbol |-> symbol, engines |-> eng, existingId |-> existingId,
   idNow |-> readings[1], now |-> readings[2]]

\* the session the call builds
SessionOf(call) ==
  NewSession(call.symbol, call.engines, call.existingId, call.idNow, call.now)

\* --- deep variant ---

PlannerReturn(r) ==
  /\ pc = "planner"
  /\ lastOutcome' = Some(r)
  /\ IF r.ok
       THEN /\ engines' = updateEngineStatus(engines, "planner", "success", Some(r.val), None)
            /\ pc' = "plannerDelay"
            /\ UNCHANGED <<globalError, isAnalyzing, runEnd>>
       ELSE AnalyzeCatch(r.val)
  /\ UNCHANGED <<fixedVars, clock, workerResults, invoked, ctx, saveLog>>

PlannerDelay ==
  /\ pc = "plannerDelay"
  /\ lastOutcome' = None
  /\ engines' = updateEngineStatus(engines, "librarian", "loading", None, None)
  /\ invoked' = Append(invoked, "librarian")
  /\ pc' = "librarian"
  /\ UNCHANGED <<fixedVars, clock, isAnalyzing, globalError, workerResults, ctx,
                 saveLog, runEnd>>

LibrarianReturn(r) ==
  /\ pc = "librarian"
  /\ lastOutcome' = Some(r)
  /\ IF r.ok
       THEN /\ engines' = updateEngineStatus(engines, "librarian", "success", Some(r.val), None)
            /\ pc' = "librarianDelay"
            /\ UNCHANGED <<globalError, isAnalyzing, runEnd>>
       ELSE AnalyzeCatch(r.val)
  /\ UNCHANGED <<fixedVars, clock, workerResults, invoked, ctx, saveLog>>

\* the specialist the loop is at
CurrentWorker == workerIds[Len(workerResults) + 1]

\* the outcomes told apart for a specialist: the words of the text matter
\* for the first one
WorkerOutcomes == IF workerResults = <<>> THEN EngineOutcomes ELSE PlainOutcomes

LibrarianDelay ==
  /\ pc = "librarianDelay"
  /\ lastOutcome' = None
  /\ engines' = updateEngineStatus(engines, workerIds[1], "loading", None, None)
  /\ invoked' = Append(invoked, workerIds[1])
  /\ pc' = "worker"
  /\ UNCHANGED <<fixedVars, clock, isAnalyzing, globalError, workerResults, ctx,
                 saveLog, runEnd>>

\* variant: a specialist's failure goes to the handler's catch block
WorkerReturn_Fatal(r) ==
  /\ pc = "worker"
  /\ lastOutcome' = Some(r)
  /\ IF r.ok
       THEN /\ engines' = updateEngineStatus(engines, CurrentWorker, "success", Some(r.val), None)
            /\ workerResults' = Append(workerResults, [id |-> CurrentWorker, result |-> r.val])
            /\ pc' = "workerDelay"
            /\ UNCHANGED <<globalError, isAnalyzing, runEnd>>
       ELSE /\ AnalyzeCatch(r.val)
            /\ UNCHANGED workerResults
  /\ UNCHANGED <<fixedVars, clock, invoked, ctx, saveLog>>
\* the loop body after the await: try { ... } catch (err) { ... }
WorkerReturn(r) ==
  /\ pc = "worker"
  /\ lastOutcome' = Some(r)
  /\ IF r.ok
       THEN /\ engines' = updateEngineStatus(engines, CurrentWorker, "success", Some(r.val), None)
            /\ workerResults' = Append(workerResults, [id |-> CurrentWorker, result |-> r.val])
       ELSE /\ engines' = updateEngineStatus(engines, CurrentWorker, "error", None, Some(r.val))
            /\ workerResults' = Append(workerResults,
                                       [id |-> CurrentWorker, result |-> FailedResult(r.val)])
  /\ pc' = "workerDelay"
  /\ UNCHANGED <<fixedVars, clock, isAnalyzing, globalError, invoked, ctx, saveLog, runEnd>>

\* the delay after a specialist; then the next specialist, or after the last
\* one the synthesizer call (workerResults is not used after it)
WorkerDelay ==
  /\ pc = "workerDelay"
  /\ lastOutcome' = None
  /\ IF Len(workerResults) < Len(workerIds)
       THEN /\ engines' = updateEngineStatus(engines, CurrentWorker, "loading", None, None)
            /\ invoked' = Append(invoked, CurrentWorker)
            /\ pc' = "worker"
            /\ UNCHANGED <<workerResults, ctx>>
       ELSE /\ engines' = updateEngineStatus(engines, "synthesizer", "loading", None, None)
            /\ invoked' = Append(invoked, "synthesizer")
            /\ ctx' = synthesisContext(workerResults)
            /\ workerResults' = <<>>
            /\ pc' = "synth"
  /\ UNCHANGED <<fixedVars, clock, isAnalyzing, globalError, saveLog, runEnd>>

\* const finalEngines = { ...engines }; finalEngines.synthesizer = { ... }
DeepFinalEngines(closed, text) ==
  [closed EXCEPT !["synthesizer"] = SpreadSuccess(closed["synthesizer"], text)]

SynthReturn(r) ==
  /\ pc = "synth"
  /\ lastOutcome' = Some(r)
  /\ ctx' = <<>>
  /\ IF r.ok
       THEN /\ engines' = DeepFinalEngines(cl.engines, r.val)
            /\ \E t \in SaveReadings(cl.currentSessionId) :
                 /\ saveLog' = Append(saveLog,
                      SaveCall(cl.stockSymbol, DeepFinalEngines(cl.engines, r.val),
                               cl.currentSessionId, t))
                 /\ clock' = t[2]
            /\ pc' = "save"
            /\ UNCHANGED <<globalError, isAnalyzing, runEnd>>
       ELSE /\ AnalyzeCatch(r.val)
            /\ UNCHANGED <<saveLog, clock>>
  /\ UNCHANGED <<fixedVars, workerResults, invoked>>

\* --- quick variant ---

\* variant: only the comprehensive slot receives the result
QuickFinalEngines_OneSlot(closed, text) ==
  [closed EXCEPT !["comprehensive"] = SpreadSuccess(closed["comprehensive"], text)]
\* const finalEngines = { ...engines, comprehensive: {...}, synthesizer: {...} }
QuickFinalEngines(closed, text) ==
  [closed EXCEPT !["comprehensive"] = SpreadSuccess(closed["comprehensive"], text),
                 !["synthesizer"] = SpreadSuccess(closed["synthesizer"], text)]

QuickReturn(r) ==
  /\ pc = "quick"
  /\ lastOutcome' = Some(r)
  /\ IF r.ok
       THEN /\ engines' = QuickFinalEngines(cl.engines, r.val)
            /\ \E t \in SaveReadings(cl.currentSessionId) :
                 /\ saveLog' = Append(saveLog,
                      SaveCall(cl.stockSymbol, QuickFinalEngines(cl.engines, r.val),
                               cl.currentSessionId, t))
                 /\ clock' = t[2]
            /\ pc' = "save"
            /\ UNCHANGED <<globalError, isAnalyzing, runEnd>>
       ELSE /\ AnalyzeCatch(r.val)
            /\ UNCHANGED <<saveLog, clock>>
  /\ UNCHANGED <<fixedVars, workerResults, invoked, ctx>>

\* --- comparison variant ---

CmpAReturn(r) ==
  /\ pc = "cmpA"
  /\ lastOutcome' = Some(r)
  /\ IF r.ok
       THEN /\ engines' = updateEngineStatus(engines, "planner", "success",
                                             Some(AnalysisOfComplete(stockA(cl.stockSymbol))), None)
            /\ pc' = "cmpDelayA"
            /\ UNCHANGED <<globalError, isAnalyzing, runEnd>>
       ELSE AnalyzeCatch(r.val)
  /\ UNCHANGED <<fixedVars, clock, workerResults, invoked, ctx, saveLog>>

CmpDelayA ==
  /\ pc = "cmpDelayA"
  /\ lastOutcome' = None
  /\ engines' = updateEngineStatus(engines, "librarian", "loading", None, None)
  /\ invoked' = Append(invoked, "comprehensive")
  /\ pc' = "cmpB"
  /\ UNCHANGED <<fixedVars, clock, isAnalyzing, globalError, workerResults, ctx,
                 saveLog, runEnd>>

\* variant: a failure of the second analysis is recorded on its slot and
\* the handler goes on
CmpBReturn_Tolerant(r) ==
  /\ pc = "cmpB"
  /\ lastOutcome' = Some(r)
  /\ engines' = IF r.ok
                  THEN updateEngineStatus(engines, "librarian", "success",
                                          Some(AnalysisOfComplete(stockB(cl.stockSymbol))), None)
                  ELSE updateEngineStatus(engines, "librarian", "error", None, Some(r.val))
  /\ pc' = "cmpDelayB"
  /\ UNCHANGED <<globalError, isAnalyzing, runEnd>>
  /\ UNCHANGED <<fixedVars, clock, workerResults, invoked, ctx, saveLog>>
CmpBReturn(r) ==
  /\ pc = "cmpB"
  /\ lastOutcome' = Some(r)
  /\ IF r.ok
       THEN /\ engines' = updateEngineStatus(engines, "librarian", "success",
                                             Some(AnalysisOfComplete(stockB(cl.stockSymbol))), None)
            /\ pc' = "cmpDelayB"
            /\ UNCHANGED <<globalError, isAnalyzing, runEnd>>
       ELSE AnalyzeCatch(r.val)
  /\ UNCHANGED <<fixedVars, clock, workerResults, invoked, ctx, saveLog>>

CmpDelayB ==
  /\ pc = "cmpDelayB"
  /\ lastOutcome' = None
  /\ engines' = updateEngineStatus(engines, "synthesizer", "loading", None, None)
  /\ invoked' = Append(invoked, "customPrompt")
  /\ pc' = "cmpC"
  /\ UNCHANGED <<fixedVars, clock, isAnalyzing, globalError, workerResults, ctx,
                 saveLog, runEnd>>

\* const finalEngines = { ...engines, planner: {...}, librarian: {...},
\*                        comprehensive: {...}, synthesizer: {...} }
CmpFinalEngines(closed, sym, text) ==
  [closed EXCEPT
     !["planner"] = SpreadSuccess(closed["planner"], AnalysisOfComplete(stockA(sym))),
     !["librarian"] = SpreadSuccess(closed["librarian"], AnalysisOfComplete(stockB(sym))),
     !["comprehensive"] = SpreadSuccess(closed["comprehensive"], HeadToHead(sym)),
     !["synthesizer"] = SpreadSuccess(closed["synthesizer"], text)]

CmpCReturn(r) ==
  /\ pc = "cmpC"
  /\ lastOutcome' = Some(r)
  /\ IF r.ok
       THEN /\ engines' = CmpFinalEngines(cl.engines, cl.stockSymbol, r.val)
            /\ \E t \in SaveReadings(cl.currentSessionId) :
                 /\ saveLog' = Append(saveLog,
                      SaveCall(ComparisonLabel(cl.stockSymbol),
                               CmpFinalEngines(cl.engines, cl.stockSymbol, r.val),
                               cl.currentSessionId, t))
                 /\ clock' = t[2]
            /\ pc' = "save"
            /\ UNCHANGED <<globalError, isAnalyzing, runEnd>>
       ELSE /\ AnalyzeCatch(r.val)
            /\ UNCHANGED <<saveLog, clock>>
  /\ UNCHANGED <<fixedVars, workerResults, invoked, ctx>>

\* --- the save that ends a successful analysis ---

\* variant: the flag is cleared only when a session was saved
SaveReturn_FlagOnSuccess(saved, readOk) ==
  /\ pc = "save"
  /\ Turn(cl.user)
  /\ LET session == SessionOf(Last(saveLog))
     IN IF saved
          THEN /\ IF IsDurable(cl.user)
                    THEN /\ remoteStore' = RemoteSet(remoteStore, session)
                         /\ UNCHANGED localStore
                    ELSE /\ localStore' = LocalSave(localStore, readOk, session)
                         /\ UNCHANGED remoteStore
               /\ history' = ReconcileNew(history, session)
               /\ currentSessionId' = session.id
          ELSE UNCHANGED <<localStore, remoteStore, history, currentSessionId>>
  /\ isAnalyzing' = ~saved
  /\ pc' = "idle"
  /\ runEnd' = IF saved THEN "completed" ELSE "unsaved"
  /\ UNCHANGED <<user, stockSymbol, scanMode, engines, isUpdating, globalError, clock,
                 cl, workerResults, lipc, runs, invoked, ctx, lastOutcome, saveLog,
                 snap, sessVars, updVars, ughostVars, authVars>>
\* saveSession resolves: with the session written (saved) or, on an I/O
\* failure of the backend, with null
SaveReturn(saved, readOk) ==
  /\ pc = "save"
  /\ Turn(cl.user)
  /\ LET session == SessionOf(Last(saveLog))
     IN IF saved
          THEN /\ IF IsDurable(cl.user)
                    THEN /\ remoteStore' = RemoteSet(remoteStore, session)
                         /\ UNCHANGED localStore
                    ELSE /\ localStore' = LocalSave(localStore, readOk, session)
                         /\ UNCHANGED remoteStore
               /\ history' = ReconcileNew(history, session)
               /\ currentSessionId' = session.id
          ELSE UNCHANGED <<localStore, remoteStore, history, currentSessionId>>
  /\ isAnalyzing' = FALSE
  /\ pc' = "idle"
  /\ runEnd' = IF saved THEN "completed" ELSE "unsaved"
  /\ UNCHANGED <<user, stockSymbol, scanMode, engines, isUpdating, globalError, clock,
                 cl, workerResults, lipc, runs, invoked, ctx, lastOutcome, saveLog,
                 snap, sessVars, updVars, ughostVars, authVars>>

\* ------------------------------------------------------------------------
\* App.tsx : handleUpdateReport
\* ------------------------------------------------------------------------

\* the Update and LinkedIn buttons are rendered with the synthesis result:
\* engines.synthesizer.status === 'success' && currentSessionId && user
ReportShown ==
  /\ engines["synthesizer"].status = "success"
  /\ currentSessionId # NoId
  /\ user # NoUser

\* `${previousSummary}` of a null result
SummaryText(result) == IF result = None THEN <<"null">> ELSE TheValue(result)

\* "Failed to update report: " + message
UpdateFailed(msg) == <<"Failed to update report:">> \o msg

\* what no step of an update touches between its start and its save
ufixedVars == <<user, stockSymbol, scanMode, isAnalyzing, localStore, remoteStore,
                history, currentSessionId, ucl, runs, usnap, flowVars, ghostVars,
                sessVars, authVars>>

\* the Update button (rendered with the report, disabled={isUpdating}):
\* handleUpdateReport up to its first await, the guards and the sentinel
\* call (workflows are followed up to MaxRuns)
UpdateStart ==
  /\ ReportShown
  /\ ~(currentSessionId = NoId \/ isUpdating)
  /\ user # NoUser
  /\ runs < MaxRuns
  /\ runs' = runs + 1
  /\ isUpdating' = TRUE
  /\ globalError' = None
  /\ ucl' = [user |-> user, engines |-> engines,
             currentSessionId |-> currentSessionId, stockSymbol |-> stockSymbol]
  /\ engines' = updateEngineStatus(engines, "updater", "loading", None, None)
  /\ upc' = "updater"
  /\ ulv' = NoLocals
  /\ uinvoked' = <<"updater">>
  /\ ulastOutcome' = None
  /\ usaveLog' = <<>>
  /\ urunEnd' = "none"
  /\ usnap' = StoreSnapshot
  /\ UNCHANGED <<user, stockSymbol, scanMode, isAnalyzing, history, currentSessionId,
                 storeVars, pc, cl, workerResults, lipc, ghostVars, sessVars, authVars>>

\* variant: the failure is reported and the handler goes on to the save
UpdateCatch_Proceeds(msg) ==
  /\ globalError' = Some(UpdateFailed(msg))
  /\ engines' = updateEngineStatus(engines, "updater", "error", None, Some(msg))
  /\ isUpdating' = FALSE
  /\ upc' = "updSave"
  /\ urunEnd' = "aborted"
\* catch (e) { setGlobalError(...); updateEngineStatus('updater', 'error', null,
\* message) } finally { setIsUpdating(false) }
UpdateCatch(msg) ==
  /\ globalError' = Some(UpdateFailed(msg))
  /\ engines' = updateEngineStatus(engines, "updater", "error", None, Some(msg))
  /\ isUpdating' = FALSE
  /\ upc' = "idle"
  /\ urunEnd' = "aborted"

UpdaterReturn(r) ==
  /\ upc = "updater"
  /\ IF r.ok
       THEN /\ engines' = updateEngineStatus(
                            updateEngineStatus(engines, "updater", "success", Some(r.val), None),
                            "synthesizer", "loading", None, None)
            /\ ulv' = [updaterRes |-> r.val,
                       synthesisContext |->
                         updateContext(SummaryText(ucl.engines["synthesizer"].result), r.val)]
            /\ uinvoked' = Append(uinvoked, "synthesizer")
            /\ upc' = "updSynth"
            /\ ulastOutcome' = None
            /\ UNCHANGED <<globalError, isUpdating, urunEnd>>
       ELSE /\ UpdateCatch(r.val)
            /\ ulastOutcome' = Some(r)
            /\ UNCHANGED <<ulv, uinvoked>>
  /\ UNCHANGED <<ufixedVars, clock, usaveLog>>

\* const finalEngines = { ...engines, updater: {...}, synthesizer: {...} }
UpdateFinalEngines(closed, updaterText, text) ==
  [closed EXCEPT !["updater"] = SpreadSuccess(closed["updater"], updaterText),
                 !["synthesizer"] = SpreadSuccess(closed["synthesizer"], text)]

\* (the locals are not used after finalEngines is built)
UpdSynthReturn(r) ==
  /\ upc = "updSynth"
  /\ ulastOutcome' = Some(r)
  /\ ulv' = NoLocals
  /\ IF r.ok
       THEN /\ engines' = UpdateFinalEngines(ucl.engines, ulv.updaterRes, r.val)
            /\ \E t \in SaveReadings(ucl.currentSessionId) :
                 /\ usaveLog' = Append(usaveLog,
                      SaveCall(ucl.stockSymbol,
                               UpdateFinalEngines(ucl.engines, ulv.updaterRes, r.val),
                               ucl.currentSessionId, t))
                 /\ clock' = t[2]
            /\ upc' = "updSave"
            /\ UNCHANGED <<globalError, isUpdating, urunEnd>>
       ELSE /\ UpdateCatch(r.val)
            /\ UNCHANGED <<usaveLog, clock>>
  /\ UNCHANGED <<ufixedVars, uinvoked>>

\* saveSession resolves for the update, and the handler reconciles
UpdSaveReturn(saved, readOk) ==
  /\ upc = "updSave"
  /\ Turn(ucl.user)
  /\ LET session == SessionOf(Last(usaveLog))
     IN IF saved
          THEN /\ IF IsDurable(ucl.user)
                    THEN /\ remoteStore' = RemoteSet(remoteStore, session)
                         /\ UNCHANGED localStore
                    ELSE /\ localStore' = LocalSave(localStore, readOk, session)
                         /\ UNCHANGED remoteStore
               /\ history' = ReconcileUpdated(history, session)
          ELSE UNCHANGED <<localStore, remoteStore, history>>
  /\ isUpdating' = FALSE
  /\ upc' = "idle"
  /\ urunEnd' = IF saved THEN "completed" ELSE "unsaved"
  /\ UNCHANGED <<user, stockSymbol, scanMode, engines, isAnalyzing, globalError,
                 currentSessionId, clock, ucl, ulv, runs, uinvoked, ulastOutcome,
                 usaveLog, usnap, flowVars, ghostVars, sessVars, authVars>>

\* ------------------------------------------------------------------------
\* App.tsx : handleLinkedInGen, handleLoadSession, handleClearSession
\* ------------------------------------------------------------------------

\* the Post to LinkedIn button of the report (disabled while the linkedin
\* entry is Loading) and the handler's guard, up to its await; the number
\* of calls in flight is bounded
LinkedInStart ==
  /\ lipc < MaxPending
  /\ ReportShown
  /\ engines["linkedin"].status # "loading"
  /\ engines["synthesizer"].result # None
  /\ engines' = updateEngineStatus(engines, "linkedin", "loading", None, None)
  /\ lipc' = lipc + 1
  /\ UNCHANGED <<user, stockSymbol, scanMode, isAnalyzing, isUpdating, globalError,
                 history, currentSessionId, storeVars, pc, cl, workerResults, runs,
                 ghostVars, sessVars, updVars, ughostVars, authVars>>

\* one of the runEngine('linkedin') calls in flight settles
LinkedInReturn(r) ==
  /\ lipc > 0
  /\ engines' = IF r.ok
                  THEN updateEngineStatus(engines, "linkedin", "success", Some(r.val), None)
                  ELSE updateEngineStatus(engines, "linkedin", "error", None, Some(r.val))
  /\ lipc' = lipc - 1
  /\ UNCHANGED <<user, stockSymbol, scanMode, isAnalyzing, isUpdating, globalError,
                 history, currentSessionId, storeVars, pc, cl, workerResults, runs,
                 ghostVars, sessVars, updVars, ughostVars, authVars>>

\* a session of the history list is opened: handleLoadSession
LoadSession(i) ==
  /\ i \in 1..Len(history)
  /\ stockSymbol' = history[i].symbol
  /\ engines' = [id \in EngineIds |-> history[i].engines[id]]
  /\ currentSessionId' = history[i].id
  /\ globalError' = None
  /\ UNCHANGED <<user, scanMode, isAnalyzing, isUpdating, history, storeVars, flowVars,
                 ghostVars, sessVars, updVars, ughostVars, authVars>>

\* the Close button of the report: handleClearSession
ClearSession ==
  /\ ReportShown
  /\ currentSessionId' = NoId
  /\ engines' = buildInitialState
  /\ stockSymbol' = SymBlank
  /\ globalError' = None
  /\ UNCHANGED <<user, scanMode, isAnalyzing, isUpdating, history, storeVars, flowVars,
                 ghostVars, sessVars, updVars, ughostVars, authVars>>

\* ------------------------------------------------------------------------
\* storageService : extractMetadata.  A text is a sequence of lines, a line
\* a sequence of words; the markers, '#', '*', '[' and ']' are words
\* ------------------------------------------------------------------------

MaxLines == 3

DecisionMarker == "FINAL DECISION:"
ThesisMarker == "The \"One-Line\" Thesis:"
LongWord == "a sentence of 120 characters"
LongWordCut == "the first 100 characters of a sentence of 120 characters"

\* the lines of a synthesized report
ReportLines ==
  {<<>>,
   <<"#", "Executive Summary and Outlook">>,
   <<"Strong moat">>,
   <<"Exactly twenty chars">>,
   <<"Revenue grew 20% year on year">>,
   <<LongWord>>,
   <<DecisionMarker>>,
   <<DecisionMarker, "[", "BUY", "]">>,
   <<"*", DecisionMarker, "*", "HOLD", "*">>,
   <<ThesisMarker, "*", "Cheap and growing", "*">>}

\* String.prototype.length of a word
WordLength(w) ==
  CASE w = "#" -> 1
    [] w = "*" -> 1
    [] w = "[" -> 1
    [] w = "]" -> 1
    [] w = "BUY" -> 3
    [] w = "HOLD" -> 4
    [] w = "Strong moat" -> 11
    [] w = DecisionMarker -> 15
    [] w = "Cheap and growing" -> 17
    [] w = "Exactly twenty chars" -> 20
    [] w = ThesisMarker -> 22
    [] w = "Executive Summary and Outlook" -> 29
    [] w = "Revenue grew 20% year on year" -> 29
    [] w = LongWord -> 120

\* line.length: the words and the blanks between them
RECURSIVE LineLength(_)
LineLength(line) ==
  IF line = <<>> THEN 0
  ELSE IF Len(line) = 1 THEN WordLength(line[1])
  ELSE WordLength(line[1]) + 1 + LineLength(Tail(line))

\* line.substring(0, 100)
Substring100(line) ==
  IF LineLength(line) <= 100 THEN line
  ELSE IF line = <<LongWord>> THEN <<LongWordCut>>
  ELSE line

\* synthResult.split('\n'): the empty text is one empty line
SplitLines(text) == IF text = <<>> THEN <<<<>>>> ELSE text

\* the first line that holds a marker, and the marker's place in a line
MarkerAt(line, marker) ==
  CHOOSE i \in 1..Len(line) : line[i] = marker /\ \A j \in 1..(i - 1) : line[j] # marker
HasMarker(lines, marker) == \E k \in 1..Len(lines) : Includes(lines[k], marker)
FirstMarked(lines, marker) ==
  CHOOSE k \in 1..Len(lines) :
    Includes(lines[k], marker) /\ \A j \in 1..(k - 1) : ~Includes(lines[j], marker)

\* what (.*) captures behind the marker and \s*: the rest of the marker's
\* line or, when nothing but white space follows on that line, the first
\* later line that is not empty (\s* goes across line breaks), or nothing
AfterMarker(lines, marker) ==
  LET k == FirstMarked(lines, marker)
      line == lines[k]
      rest == SubSeq(line, MarkerAt(line, marker) + 1, Len(line))
      later == {j \in (k + 1)..Len(lines) : lines[j] # <<>>}
  IN IF rest # <<>> THEN rest
     ELSE IF later = {} THEN <<>>
     ELSE lines[CHOOSE j \in later : \A i \in later : j <= i]

\* /FINAL DECISION:\s*\[?(.*?)\]?$/m : an opening bracket right behind the
\* marker and a closing bracket at the end of the line are left out
Unbracket(words) ==
  LET a == IF words # <<>> /\ words[1] = "[" THEN Tail(words) ELSE words
  IN IF a # <<>> /\ a[Len(a)] = "]" THEN SubSeq(a, 1, Len(a) - 1) ELSE a

\* .replace(/\*/g, '').trim()
StripStars(words) == SelectSeq(words, LAMBDA w : w # "*")

\* the fallback of the summary: the first line longer than 20 that is no
\* heading, cut to 100 characters, + '...'; `undefined + '...'` when there
\* is no such line
ContentLine(line) == LineLength(line) > 20 /\ (line = <<>> \/ line[1] # "#")
SummaryFallback(lines) ==
  IF \E k \in 1..Len(lines) : ContentLine(lines[k])
    THEN LET k == CHOOSE i \in 1..Len(lines) :
                    ContentLine(lines[i]) /\ \A j \in 1..(i - 1) : ~ContentLine(lines[j])
         IN Substring100(lines[k]) \o <<"...">>
    ELSE <<"undefined", "...">>

\* extractMetadata(engines), as a function of engines.synthesizer?.result
extractMetadata(result) ==
  LET lines == SplitLines(IF result = None THEN <<>> ELSE TheValue(result))
  IN [verdict |-> IF HasMarker(lines, DecisionMarker)
                    THEN StripStars(Unbracket(AfterMarker(lines, DecisionMarker)))
                    ELSE <<"ANALYZED">>,
      summary |-> IF HasMarker(lines, ThesisMarker)
                    THEN StripStars(AfterMarker(lines, ThesisMarker))
                    ELSE SummaryFallback(lines)]

\* ------------------------------------------------------------------------
\* geminiService : the sources callGemini returns for the grounding chunks
\* of a response
\* ------------------------------------------------------------------------

MaxChunks == 3

\* chunk.web?.uri and chunk.web?.title, each present or not
GroundingChunks ==
  {[uri |-> Some("u1"), title |-> Some("t1")],
   [uri |-> Some("u1"), title |-> Some("t2")],
   [uri |-> Some("u2"), title |-> Some("t1")],
   [uri |-> None, title |-> Some("t1")],
   [uri |-> Some("u2"), title |-> None]}

\* groundingChunks.forEach(chunk => { if (uri && title) sources.push(...) });
\* no sources without groundingChunks
RECURSIVE PushSources(_)
PushSources(chunks) ==
  IF chunks = <<>> THEN <<>>
  ELSE LET chunk == chunks[1]
       IN (IF chunk.uri # None /\ chunk.title # None
             THEN <<[uri |-> TheValue(chunk.uri), title |-> TheValue(chunk.title)]>>
             ELSE <<>>) \o PushSources(Tail(chunks))
callGeminiSources(groundingChunks) ==
  IF groundingChunks = None THEN <<>> ELSE PushSources(TheValue(groundingChunks))

\* one application of a helper to an argument
ApplyExtractMetadata ==
  /\ pfn = "extractMetadata"
  /\ pout = None
  /\ pout' = Some(extractMetadata(parg))
  /\ UNCHANGED <<pfn, parg>>

ApplySources ==
  /\ pfn = "sources"
  /\ pout = None
  /\ pout' = Some(callGeminiSources(parg))
  /\ UNCHANGED <<pfn, parg>>

\* ------------------------------------------------------------------------
\* Session management: saveSession and the caller's reconciliation,
\* loadHistory, handleDeleteSession
\* ------------------------------------------------------------------------

\* what a session-management step leaves alone
idleVars == <<user, scanMode, isAnalyzing, isUpdating, flowVars, ghostVars, updVars,
              ughostVars, authVars>>

\* inputs of saveSession: subject labels and engines maps of finished reports.
\* The maps are those of quick analyses started after a failed quick
\* analysis (the comprehensive entry keeps the message) and after a deep
\* analysis that ended behind the planner (the planner entry has the key
\* 'error' without a message, the comprehensive entry has no such key)
StoreSymbols == {SymReliance, ComparisonLabel(SymComparison)}
AfterFailedQuick == updateEngineStatus(buildInitialState, "comprehensive", "error", None, Some(MsgQuota))
AfterPlanner == updateEngineStatus(buildInitialState, "planner", "success", Some(<<"T1">>), None)
StoreEngines ==
  {QuickFinalEngines(AfterFailedQuick, <<"T1">>), QuickFinalEngines(AfterPlanner, <<"T2">>)}

\* the ids a caller may pass as existingId: none, or the id of the first or
\* of the last session it holds
KnownIds ==
  {NoId} \cup {history[i].id : i \in {1, Len(history)} \cap (1..Len(history))}

\* the list without its k-th entry
RemoveAt(seq, k) == SubSeq(seq, 1, k - 1) \o SubSeq(seq, k + 1, Len(seq))

\* const newSession = await saveSession(user.uid, symbol, finalEngines, existingId),
\* up to the await: of handleAnalyze (caller "analyze") or of
\* handleUpdateReport ("update"). The id and the timestamp are read from
\* Date.now() as the call is entered. A handler awaits the call with its
\* flag set (isAnalyzing, isUpdating), so that it is not invoked again
\* before the call resolves
SaveStart(caller, symbol, eng, existingId) ==
  /\ sops < MaxOps
  /\ Len(calls) < MaxPending
  /\ \A k \in 1..Len(calls) : calls[k].op = "save" => calls[k].caller # caller
  /\ caller = "update" => existingId # NoId
  /\ \E t \in SaveReadings(existingId) :
       /\ calls' = Append(calls, [op |-> "save", userId |-> user, caller |-> caller,
                                  call |-> SaveCall(symbol, eng, existingId, t)])
       /\ clock' = t[2]
  /\ sops' = sops + 1
  /\ UNCHANGED <<idleVars, stockSymbol, engines, globalError, history, currentSessionId,
                 localStore, remoteStore, sret, dels>>

\* the k-th call in flight, a saveSession, resolves, and its caller goes on
\* with `if (newSession) { setHistory(...); ... }`. ioOk: the write is accepted
\* (by Firestore or by the local storage); otherwise saveSession's catch
\* returns null. readOk: the local list can be read and parsed
SaveReconcile(k, ioOk, readOk) ==
  /\ k \in 1..Len(calls)
  /\ calls[k].op = "save"
  /\ Turn(calls[k].userId)
  /\ LET c == calls[k]
         session == SessionOf(c.call)
     IN IF ioOk
          THEN /\ IF IsDurable(c.userId)
                    THEN /\ remoteStore' = RemoteSet(remoteStore, session)
                         /\ UNCHANGED localStore
                    ELSE /\ localStore' = LocalSave(localStore, readOk, session)
                         /\ UNCHANGED remoteStore
               /\ sret' = [op |-> "save", existingId |-> c.call.existingId, ok |-> TRUE,
                           failed |-> ~IsDurable(c.userId) /\ ~readOk,
                           session |-> Some(session), list |-> <<>>]
               /\ IF c.caller = "analyze"
                    THEN /\ history' = ReconcileNew(history, session)
                         /\ currentSessionId' = session.id
                    ELSE /\ history' = ReconcileUpdated(history, session)
                         /\ UNCHANGED currentSessionId
          ELSE /\ sret' = [op |-> "save", existingId |-> c.call.existingId, ok |-> FALSE,
                           failed |-> TRUE, session |-> None, list |-> <<>>]
               /\ UNCHANGED <<localStore, remoteStore, history, currentSessionId>>
  /\ calls' = RemoveAt(calls, k)
  /\ UNCHANGED <<idleVars, stockSymbol, engines, globalError, clock, sops, dels>>

\* loadHistory up to its await: const sessions = await getSessions(userId)
loadHistory ==
  /\ sops < MaxOps
  /\ Len(calls) < MaxPending
  /\ calls' = Append(calls, ListCall(user))
  /\ sops' = sops + 1
  /\ UNCHANGED <<idleVars, stockSymbol, engines, globalError, history, currentSessionId,
                 storeVars, sret, dels>>

\* the backend evaluates the query of the k-th call in flight, a getSessions:
\* the owner's sessions as they are now, or [] when the backend cannot be
\* read; the answer is on its way
GetSessionsRead(k, readOk) ==
  /\ k \in 1..Len(calls)
  /\ calls[k].op = "list"
  /\ calls[k].list = None
  /\ Turn(calls[k].userId)
  /\ calls' = [calls EXCEPT ![k] =
                 [op |-> "list", userId |-> calls[k].userId, ok |-> readOk,
                  list |-> Some(getSessions(calls[k].userId, localStore, remoteStore, readOk))]]
  /\ UNCHANGED <<idleVars, stockSymbol, engines, globalError, history, currentSessionId,
                 storeVars, sret, sops, dels>>

\* the answer arrives and loadHistory goes on: setHistory(sessions)
LoadHistoryReturn(k) ==
  /\ k \in 1..Len(calls)
  /\ calls[k].op = "list"
  /\ calls[k].list # None
  /\ Turn(calls[k].userId)
  /\ history' = TheValue(calls[k].list)
  /\ sret' = [op |-> "list", existingId |-> NoId, ok |-> calls[k].ok,
              failed |-> ~calls[k].ok, session |-> None, list |-> TheValue(calls[k].list)]
  /\ calls' = RemoveAt(calls, k)
  /\ UNCHANGED <<idleVars, stockSymbol, engines, globalError, currentSessionId,
                 storeVars, sops, dels>>

\* setGlobalError("Failed to delete session.")
MsgDeleteFailed == <<"Failed to delete session.">>

\* handleDeleteSession up to its await: the copy of the history, the
\* optimistic removal and the call deleteSession(user?.uid || null, id)
DeleteStart(id) ==
  /\ sops < MaxOps
  /\ Len(dels) < MaxPending
  /\ \E i \in 1..Len(history) : history[i].id = id
  /\ dels' = Append(dels, [id |-> id, userId |-> user, originalHistory |-> history,
                           currentSessionId |-> currentSessionId])
  /\ history' = SelectSeq(history, LAMBDA h : h.id # id)
  /\ sops' = sops + 1
  /\ UNCHANGED <<idleVars, stockSymbol, engines, globalError, currentSessionId,
                 storeVars, sret, calls>>

\* variant: on failure the session is put back at the head of the list
DeleteReturn_Prepend(k, ioOk, readOk) ==
  /\ k \in 1..Len(dels)
  /\ Turn(dels[k].userId)
  /\ LET d == dels[k]
     IN IF ioOk
          THEN /\ IF IsDurable(d.userId)
                    THEN /\ remoteStore' = DeleteRemote(remoteStore, d.id)
                         /\ UNCHANGED localStore
                    ELSE /\ localStore' = DeleteLocal(localStore, readOk, d.id)
                         /\ UNCHANGED remoteStore
               /\ IF d.currentSessionId = d.id
                    THEN /\ currentSessionId' = NoId
                         /\ engines' = buildInitialState
                         /\ stockSymbol' = SymBlank
                    ELSE UNCHANGED <<currentSessionId, engines, stockSymbol>>
               /\ UNCHANGED <<history, globalError>>
          ELSE /\ history' = SelectSeq(d.originalHistory, LAMBDA h : h.id = d.id) \o history
               /\ globalError' = Some(MsgDeleteFailed)
               /\ UNCHANGED <<localStore, remoteStore, currentSessionId, engines, stockSymbol>>
  /\ dels' = RemoveAt(dels, k)
  /\ sret' = [op |-> "delete", existingId |-> dels[k].id, ok |-> ioOk,
              failed |-> ~ioOk \/ (~IsDurable(dels[k].userId) /\ ~readOk),
              session |-> None, list |-> <<>>]
  /\ UNCHANGED <<idleVars, clock, sops, calls>>
\* deleteSession of the k-th pending invocation resolves or throws
DeleteReturn(k, ioOk, readOk) ==
  /\ k \in 1..Len(dels)
  /\ Turn(dels[k].userId)
  /\ LET d == dels[k]
     IN IF ioOk
          THEN /\ IF IsDurable(d.userId)
                    THEN /\ remoteStore' = DeleteRemote(remoteStore, d.id)
                         /\ UNCHANGED localStore
                    ELSE /\ localStore' = DeleteLocal(localStore, readOk, d.id)
                         /\ UNCHANGED remoteStore
               /\ IF d.currentSessionId = d.id
                    THEN /\ currentSessionId' = NoId
                         /\ engines' = buildInitialState
                         /\ stockSymbol' = SymBlank
                    ELSE UNCHANGED <<currentSessionId, engines, stockSymbol>>
               /\ UNCHANGED <<history, globalError>>
          ELSE /\ history' = d.originalHistory
               /\ globalError' = Some(MsgDeleteFailed)
               /\ UNCHANGED <<localStore, remoteStore, currentSessionId, engines, stockSymbol>>
  /\ dels' = RemoveAt(dels, k)
  /\ sret' = [op |-> "delete", existingId |-> dels[k].id, ok |-> ioOk,
              failed |-> ~ioOk \/ (~IsDurable(dels[k].userId) /\ ~readOk),
              session |-> None, list |-> <<>>]
  /\ UNCHANGED <<idleVars, clock, sops, calls>>

\* ------------------------------------------------------------------------
\* Specifications
\* ------------------------------------------------------------------------

Init == InvInit /\ AppInit

\* the App. A gesture of the user: the subject input and the mode buttons,
\* the submit and the quick picks, a card of the watchlist, sign-in and
\* sign-out, Update, LinkedIn, a session of the history opened, closed or
\* deleted; the user makes up to MaxGestures of them, whatever is in flight.
\* Then what the event loop does on its own: an awaited call settles, a
\* delay elapses, a continuation runs
Next ==
  /\ UNCHANGED invVars
  /\ UNCHANGED pureVars
  /\ \/ /\ ~MicrotaskPending
        /\ gestures < MaxGestures
        /\ gestures' = gestures + 1
        /\ \/ \E sym \in TypedSubjects : TypeSubject(sym)
           \/ \E sym \in WatchlistSymbols : MarketDeepAnalyze(sym)
           \/ \E mode \in {"quick", "deep"} : SetScanMode(mode)
           \/ AnalyzeStart
           \/ \E s \in QuickPicks : QuickPick(s)
           \/ LoginStart
           \/ LogoutStart
           \/ UpdateStart
           \/ LinkedInStart
           \/ \E i \in 1..Len(history) : LoadSession(i)
           \/ ClearSession
           \/ \E id \in KnownIds \ {NoId} : DeleteStart(id)
     \/ /\ ~MicrotaskPending
        /\ UNCHANGED gestures
        /\ \/ \E r \in PlainOutcomes : PlannerReturn(r)
           \/ PlannerDelay
           \/ \E r \in PlainOutcomes : LibrarianReturn(r)
           \/ LibrarianDelay
           \/ \E r \in WorkerOutcomes : WorkerReturn(r)
           \/ WorkerDelay
           \/ \E r \in PlainOutcomes : SynthReturn(r)
           \/ \E r \in EngineOutcomes : QuickReturn(r)
           \/ \E r \in PlainOutcomes : CmpAReturn(r)
           \/ CmpDelayA
           \/ \E r \in PlainOutcomes : CmpBReturn(r)
           \/ CmpDelayB
           \/ \E r \in EngineOutcomes : CmpCReturn(r)
           \/ \E r \in PlainOutcomes : UpdaterReturn(r)
           \/ \E r \in PlainOutcomes : UpdSynthReturn(r)
           \/ \E r \in PlainOutcomes : LinkedInReturn(r)
           \/ \E outcome \in LoginOutcomes, readOk \in BOOLEAN : LoginReturn(outcome, readOk)
           \/ \E k \in 1..Len(calls) : ListenerLoadHistory(k)
           \/ \E readOk \in BOOLEAN : LogoutReturn(readOk)
     \/ /\ UNCHANGED gestures
        /\ \/ \E saved \in BOOLEAN, readOk \in BOOLEAN : SaveReturn(saved, readOk)
           \/ \E saved \in BOOLEAN, readOk \in BOOLEAN : UpdSaveReturn(saved, readOk)
           \/ \E k \in 1..Len(dels), ioOk \in BOOLEAN, readOk \in BOOLEAN :
                DeleteReturn(k, ioOk, readOk)
           \/ \E k \in 1..Len(calls), readOk \in BOOLEAN : GetSessionsRead(k, readOk)
           \/ \E k \in 1..Len(calls) : LoadHistoryReturn(k)

Spec == Init /\ [][Next]_vars

\* the steps the event loop takes for a workflow in flight, analysis or
\* update: the stage call or the saveSession call it awaits settles, or its
\* delay elapses
WorkflowStep ==
  /\ UNCHANGED invVars
  /\ UNCHANGED gestures
  /\ UNCHANGED pureVars
  /\ \/ /\ ~MicrotaskPending
        /\ \/ \E r \in PlainOutcomes : PlannerReturn(r)
           \/ PlannerDelay
           \/ \E r \in PlainOutcomes : LibrarianReturn(r)
           \/ LibrarianDelay
           \/ \E r \in WorkerOutcomes : WorkerReturn(r)
           \/ WorkerDelay
           \/ \E r \in PlainOutcomes : SynthReturn(r)
           \/ \E r \in EngineOutcomes : QuickReturn(r)
           \/ \E r \in PlainOutcomes : CmpAReturn(r)
           \/ CmpDelayA
           \/ \E r \in PlainOutcomes : CmpBReturn(r)
           \/ CmpDelayB
           \/ \E r \in EngineOutcomes : CmpCReturn(r)
           \/ \E r \in PlainOutcomes : UpdaterReturn(r)
           \/ \E r \in PlainOutcomes : UpdSynthReturn(r)
     \/ \E saved \in BOOLEAN, readOk \in BOOLEAN : SaveReturn(saved, readOk)
     \/ \E saved \in BOOLEAN, readOk \in BOOLEAN : UpdSaveReturn(saved, readOk)

\* the continuation of a deleteSession call of the local branch runs
MicrotaskStep ==
  /\ UNCHANGED invVars
  /\ UNCHANGED gestures
  /\ UNCHANGED pureVars
  /\ \E k \in 1..Len(dels), ioOk \in BOOLEAN, readOk \in BOOLEAN :
       ~IsDurable(dels[k].userId) /\ DeleteReturn(k, ioOk, readOk)


\* one invocation after another of runEngine / runCustomPrompt
InvokerInit ==
  /\ InvInit
  /\ AppInit
  /\ user = NoUser

NextInvoker ==
  /\ UNCHANGED appVars
  /\ \/ \E fn \in {"runEngine", "runCustomPrompt"}, override \in ModelOverrides,
          keyOk \in BOOLEAN : InvStart(fn, override, keyOk)
     \/ \E resp \in Responses : InvCallReturn(resp)
     \/ InvBackoffElapse

SpecInvoker == InvokerInit /\ [][NextInvoker]_vars

\* the same, where a generateContent call in flight settles and a backoff
\* delay elapses (promises and timers of the event loop)
SpecInvokerLive ==
  /\ SpecInvoker
  /\ WF_vars(UNCHANGED appVars /\ \E resp \in Responses : InvCallReturn(resp))
  /\ WF_vars(UNCHANGED appVars /\ InvBackoffElapse)

\* session management on a store that already holds sessions: the local list
\* as consecutive saves of new sessions leave it (newest first), the
\* collection of a signed-in user with the same sessions as documents
SeedSymbols == <<<<"INFY">>, <<"RELIANCE">>>>
SeedSession(t) ==
  [id |-> t, symbol |-> SeedSymbols[(t % 2) + 1], timestamp |-> t,
   engines |-> QuickFinalEngines(buildInitialState, <<"T1">>)]
SeedList(n) == [i \in 1..n |-> SeedSession(n + 1 - i)]
SeedSizes == {0, LocalCap - 1, LocalCap}
DurableSeedSizes == {0, 2}

\* the App of a user who comes back to n saved sessions: the history is
\* loaded, the home view is empty and nothing is in flight
Returning(n) ==
  /\ InvInit
  /\ history = SeedList(n)
  /\ localStore = IF IsDurable(user) THEN <<>> ELSE history
  /\ remoteStore = IF IsDurable(user) THEN {history[i] : i \in 1..Len(history)} ELSE {}
  /\ engines = buildInitialState
  /\ currentSessionId = NoId
  /\ Quiescent
  /\ pfn = "none"
  /\ parg = None
  /\ pout = None

StoreInit ==
  /\ user \in {DemoUser, RealUser}
  /\ \E n \in IF IsDurable(user) THEN DurableSeedSizes ELSE SeedSizes : Returning(n)
  /\ clock = Len(history) + 1
  /\ stockSymbol = SymBlank
  /\ scanMode = "quick"
  /\ gestures = 0

NextStore ==
  /\ UNCHANGED invVars
  /\ UNCHANGED gestures
  /\ UNCHANGED pureVars
  /\ \/ /\ ~MicrotaskPending
        /\ \/ \E caller \in {"analyze", "update"}, symbol \in StoreSymbols,
                eng \in StoreEngines, existingId \in KnownIds :
                SaveStart(caller, symbol, eng, existingId)
           \/ loadHistory
           \/ \E id \in KnownIds \ {NoId} : DeleteStart(id)
     \/ \E k \in 1..Len(calls), ioOk \in BOOLEAN, readOk \in BOOLEAN :
          SaveReconcile(k, ioOk, readOk)
     \/ \E k \in 1..Len(calls), readOk \in BOOLEAN : GetSessionsRead(k, readOk)
     \/ \E k \in 1..Len(calls) : LoadHistoryReturn(k)
     \/ \E k \in 1..Len(dels), ioOk \in BOOLEAN, readOk \in BOOLEAN :
          DeleteReturn(k, ioOk, readOk)

SpecStore == StoreInit /\ [][NextStore]_vars

\* the App of a signed-in user who comes back to two saved reports of the
\* history and has typed a subject, the first gesture
OverlapInit ==
  /\ user = RealUser
  /\ Returning(2)
  /\ clock = Len(history) + 1
  /\ stockSymbol = SymReliance
  /\ scanMode = "quick"
  /\ gestures = 1

SpecOverlap == OverlapInit /\ [][Next]_vars

\* the App of a user who came back to n saved reports, typed the subject
\* sym, chose the mode and submitted the form: handleAnalyze is at its
\* first await
Submitted(n, sym, mode) ==
  /\ InvInit
  /\ history = SeedList(n)
  /\ localStore = IF IsDurable(user) THEN <<>> ELSE history
  /\ remoteStore = IF IsDurable(user) THEN {history[i] : i \in 1..Len(history)} ELSE {}
  /\ scanMode = mode
  /\ isAnalyzing = TRUE
  /\ isUpdating = FALSE
  /\ globalError = None
  /\ pc = FirstPc(sym, mode)
  /\ cl = [user |-> user, engines |-> buildInitialState, currentSessionId |-> NoId,
           stockSymbol |-> sym]
  /\ workerResults = <<>>
  /\ lipc = 0
  /\ runs = 1
  /\ invoked = <<FirstEngine(sym, mode)>>
  /\ ctx = <<>>
  /\ lastOutcome = None
  /\ saveLog = <<>>
  /\ runEnd = "none"
  /\ snap = StoreSnapshot
  /\ sret = [op |-> "none", existingId |-> NoId, ok |-> TRUE, failed |-> FALSE,
            session |-> None, list |-> <<>>]
  /\ sops = 0
  /\ dels = <<>>
  /\ calls = <<>>
  /\ upc = "idle"
  /\ ucl = NoClosure
  /\ ulv = NoLocals
  /\ uinvoked = <<>>
  /\ ulastOutcome = None
  /\ usaveLog = <<>>
  /\ urunEnd = "none"
  /\ usnap = NoSnapshot
  /\ popups = 0
  /\ signouts = 0
  /\ pfn = "none"
  /\ parg = None
  /\ pout = None

\* a signed-in user has submitted a deep analysis with one report saved and
\* has opened that report from the history view; one further gesture is
\* followed
DeepOverlapInit ==
  /\ user = RealUser
  /\ Submitted(1, SymReliance, "deep")
  /\ clock = Len(history) + 1
  /\ stockSymbol = history[1].symbol
  /\ engines = [id \in EngineIds |-> history[1].engines[id]]
  /\ currentSessionId = history[1].id
  /\ gestures = MaxGestures - 1

SpecDeepOverlap == DeepOverlapInit /\ [][Next]_vars

\* a quick analysis has been submitted with two reports saved; two further
\* gestures are followed
LiveInit ==
  /\ user \in {DemoUser, RealUser}
  /\ Submitted(2, SymReliance, "quick")
  /\ clock = Len(history) + 1
  /\ stockSymbol = SymReliance
  /\ engines = updateEngineStatus(buildInitialState, FirstSlot(stockSymbol, scanMode),
                                  "loading", None, None)
  /\ currentSessionId = NoId
  /\ gestures = MaxGestures - 2

\* the App, where every awaited call settles, every delay elapses and every
\* queued continuation runs
SpecLive ==
  /\ LiveInit
  /\ [][Next]_vars
  /\ WF_vars(WorkflowStep)
  /\ WF_vars(MicrotaskStep)

\* the helper functions, each on every argument up to the bounds
SeqsUpTo(S, n) == UNION {[1..k -> S] : k \in 0..n}

PureInit ==
  /\ InvInit
  /\ AppCoreInit
  /\ user = NoUser
  /\ \/ /\ pfn = "extractMetadata"
        /\ parg \in {None} \cup {Some(t) : t \in SeqsUpTo(ReportLines, MaxLines)}
     \/ /\ pfn = "sources"
        /\ parg \in {None} \cup {Some(c) : c \in SeqsUpTo(GroundingChunks, MaxChunks)}
  /\ pout = None

NextPure ==
  /\ UNCHANGED invVars
  /\ UNCHANGED <<uiVars, storeVars, flowVars, ghostVars, sessVars, updVars, ughostVars,
                 authVars, gestures>>
  /\ \/ ApplyExtractMetadata
     \/ ApplySources

SpecPure == PureInit /\ [][NextPure]_vars


\* ------------------------------------------------------------------------
\* Properties of the deep workflow
\* ------------------------------------------------------------------------

\* the specialists whose EngineRun ended in Success
SucceededWorkers == {i \in 1..Len(workerIds) : engines[workerIds[i]].status = "success"}

\* the latest stage call of the analysis has returned with an error
StageFailed == lastOutcome # None /\ ~TheValue(lastOutcome).ok
FailureMessage == TheValue(lastOutcome).val
\* the latest stage call of the update has returned with an error
UpdateStageFailed == ulastOutcome # None /\ ~TheValue(ulastOutcome).ok

\* a step that leaves the history and the stores as they are
StoreUntouched == UNCHANGED <<history, localStore, remoteStore>>

\* C1: in the deep workflow the Synthesizer is never invoked (the workflow
\* is aborted instead) when fewer than 3 specialists ended in Success.
C1_QuorumBeforeSynthesis ==
  pc = "synth" => Cardinality(SucceededWorkers) >= 3

\* C2: an engine slot moves to Success or to Error only from Loading, in
\* every step of an analysis, an update or a LinkedIn generation (opening a
\* saved session is not such a step).
C2_OnlyFromLoading ==
  [][(pc' # pc \/ upc' # upc \/ lipc' # lipc) =>
       \A id \in EngineIds :
         (engines'[id].status \in {"success", "error"}
            /\ engines'[id].status # engines[id].status)
         => engines[id].status = "loading"]_vars

\* a Success run has a result and no error message, an Error run has an
\* error message and no result
WellFormedRun(run) ==
  /\ run.status = "success" => (run.result # None /\ ErrorOf(run) = None)
  /\ run.status = "error" => (ErrorOf(run) # None /\ run.result = None)

\* C3: every EngineRun of the in-memory engines map and of every engines
\* map handed to saveSession is well formed: Success has a result and no
\* error message, Error has an error message and no result.
C3_ResultXorError ==
  /\ \A id \in EngineIds : WellFormedRun(engines[id])
  /\ \A i \in 1..Len(saveLog) : \A id \in EngineIds : WellFormedRun(saveLog[i].engines[id])
  /\ \A i \in 1..Len(usaveLog) : \A id \in EngineIds : WellFormedRun(usaveLog[i].engines[id])

\* C7: a Planner or Librarian failure in the deep workflow ends the
\* workflow in that very step: no further stage is invoked, the global
\* error is the failure's message, and nothing was saved.
C7_PlannerLibrarianFatal ==
  [][(pc \in {"planner", "librarian"} /\ pc' # pc /\ StageFailed')
       => /\ pc' = "idle"
          /\ ~isAnalyzing'
          /\ runEnd' = "aborted"
          /\ invoked' = invoked
          /\ globalError' = Some(FailureMessage')
          /\ saveLog' = <<>>
          /\ StoreUntouched]_vars

\* the librarian of a deep analysis has failed while an update, started
\* on a session opened during the analysis, is in flight
C7_Witness ==
  /\ scanMode = "deep"
  /\ runEnd = "aborted"
  /\ invoked = <<"planner", "librarian">>
  /\ StageFailed
  /\ globalError = Some(FailureMessage)
  /\ upc = "updSynth"

\* the stage calls a deep run has issued once k specialists were started
DeepCallsUpTo(k) == <<"planner", "librarian">> \o SubSeq(workerIds, 1, k)

\* C8: a specialist failure is recorded as Error with its message on that
\* specialist's own EngineRun, leaves every other EngineRun and the global
\* error as they were, does not end the workflow, and the specialists are
\* invoked one after the other in order whatever failed before.
C8_SpecialistIsolated ==
  [][/\ (pc = "worker" /\ pc' # pc /\ StageFailed')
          => /\ pc' = "workerDelay"
             /\ isAnalyzing'
             /\ runEnd' = "none"
             /\ globalError' = globalError
             /\ engines'[CurrentWorker] =
                  [status |-> "error", result |-> None, error |-> Some(FailureMessage')]
             /\ \A id \in EngineIds \ {CurrentWorker} : engines'[id] = engines[id]
     /\ (pc = "workerDelay" /\ pc' # pc)
          => \/ pc' = "worker" /\ invoked' = DeepCallsUpTo(Len(workerResults) + 1)
             \/ /\ pc' = "synth"
                /\ Len(workerResults) = Len(workerIds)
                /\ invoked' = DeepCallsUpTo(Len(workerIds)) \o <<"synthesizer">>]_vars

\* the first and the third specialist have failed and the fourth is
\* invoked, while an update started during the analysis is in flight
C8_Witness ==
  /\ pc = "worker"
  /\ invoked = DeepCallsUpTo(4)
  /\ engines["business"].status = "error"
  /\ engines["quant"].status = "success"
  /\ engines["forensic"].status = "error"
  /\ ErrorOf(engines["forensic"]) = Some(MsgQuota)
  /\ globalError = None
  /\ upc = "updSynth"

\* the stage whose failure is fatal: every stage but a deep specialist
FatalStage == ~(scanMode = "deep" /\ pc \in {"worker", "workerDelay"})

\* a step that ends the analysis, or the update, on a failed stage
AnalysisAborts == pc # "idle" /\ pc' = "idle" /\ runEnd' = "aborted"
UpdateAborts == upc # "idle" /\ upc' = "idle" /\ urunEnd' = "aborted"

\* a step of a workflow up to its saveSession call: its start, a stage call
\* that returns, a delay that elapses
StepBeforeSave == (pc # "save" /\ pc' # pc) \/ (upc # "updSave" /\ upc' # upc)

\* C9 as stated: when a workflow is aborted by a stage-fatal failure,
\* saveSession was not called in it, and the stores and the in-memory
\* history are exactly as they were when the workflow started.
C9_AbortLeavesAllAsBefore ==
  [][/\ AnalysisAborts => (saveLog' = <<>> /\ StoreSnapshot' = snap)
     /\ UpdateAborts => (usaveLog' = <<>> /\ StoreSnapshot' = usnap)]_vars

\* C9, amended: when a stage-fatal failure has ended a workflow (planner,
\* librarian or synthesizer in deep, any stage of a comparison, the quick
\* call, the sentinel or synthesizer of an update), the workflow is aborted
\* and saveSession was not called in it; and no step of a workflow up to
\* its saveSession call writes the stores or the in-memory history, so the
\* aborted workflow itself has changed neither (another handler may have).
C9_AbortSavesNothing ==
  /\ []((StageFailed /\ FatalStage) =>
          /\ pc = "idle"
          /\ runEnd = "aborted"
          /\ saveLog = <<>>)
  /\ [](UpdateStageFailed =>
          /\ upc = "idle"
          /\ urunEnd = "aborted"
          /\ usaveLog = <<>>)
  /\ [][StepBeforeSave => StoreUntouched]_vars

\* the synthesizer of an update has failed after a session was deleted
\* while the update was in flight
C9_Witness ==
  /\ UpdateStageFailed
  /\ urunEnd = "aborted"
  /\ uinvoked = <<"updater", "synthesizer">>
  /\ usaveLog = <<>>
  /\ Len(history) < Len(usnap.history)
  /\ StoreSnapshot # usnap

\* the report blocks of the specialists that ended in Success, in order
SuccessBlocks ==
  LET ok == SelectSeq(workerIds, LAMBDA id : engines[id].status = "success")
  IN [i \in 1..Len(ok) |-> [name |-> EngineName(ok[i]), text |-> TheValue(engines[ok[i]].result)]]

\* C10: when the deep Synthesizer is invoked, its context holds exactly one
\* tagged block per specialist that ended in Success (its display name and
\* its text) and none for a failed one, whatever the texts are.
C10_OneBlockPerSuccess ==
  pc = "synth" => ctx = SuccessBlocks

\* ------------------------------------------------------------------------
\* Properties of runEngine / runCustomPrompt
\* ------------------------------------------------------------------------

RateLimitErrors == {ErrResourceExhausted, Err429, ErrRateLimitText}

\* the first k calls of the invocation failed with a rate-limit error
RateLimitedFirst(k) ==
  /\ Len(ilog) >= k
  /\ \A i \in 1..k : ~ilog[i].resp.ok /\ ilog[i].resp.msg \in RateLimitErrors

\* C4: when the first k calls (k <= 3) fail with a rate-limit error the
\* invocation goes on to a further call, and when that call succeeds the
\* invocation ends successfully with that call's text after exactly k + 1
\* calls, all on the primary model.
C4_RetryThenSucceed ==
  \A k \in 0..3 :
    RateLimitedFirst(k) =>
      /\ (k >= 1 /\ Len(ilog) = k) => (ipc \in {"backoff", "calling"} /\ iresult = None)
      /\ (Len(ilog) >= k + 1 /\ ilog[k + 1].resp.ok) =>
           /\ ipc = "done"
           /\ Len(ilog) = k + 1
           /\ \A i \in 1..(k + 1) : ilog[i].model = iprimary
           /\ iresult # None
           /\ TheValue(iresult).ok
           /\ ilog[k + 1].resp.text # <<>> => TheValue(iresult).val = ilog[k + 1].resp.text

C4_Witness ==
  /\ ipc = "done"
  /\ Len(ilog) = 3
  /\ RateLimitedFirst(2)
  /\ ilog[3].resp.ok
  /\ iresult = Some([ok |-> TRUE, val |-> <<"T1">>])

\* the primary attempt ended in quota exhaustion: its four calls were all
\* rejected for the rate limit
PrimaryExhausted == RateLimitedFirst(MaxRetries + 1)

\* C5: after quota exhaustion on a primary model that differs from the
\* fallback model, the fallback model is called; when a fallback call
\* succeeds the invocation returns that call's text prefixed with the
\* fallback marker; a text returned by the primary model has no marker.
C5_FallbackMarker ==
  /\ (PrimaryExhausted /\ iprimary # FALLBACK_MODEL) =>
        IF Len(ilog) = MaxRetries + 1
          THEN ipc = "calling" /\ iphase = "fallback"
          ELSE ilog[MaxRetries + 2].phase = "fallback"
               /\ ilog[MaxRetries + 2].model = FALLBACK_MODEL
  /\ (ipc = "done" /\ ilog # <<>> /\ Last(ilog).resp.ok) =>
        /\ iresult # None
        /\ TheValue(iresult).ok
        /\ IF Last(ilog).phase = "fallback"
             THEN /\ Head(TheValue(iresult).val) = FallbackMarker
                  /\ Tail(TheValue(iresult).val) =
                       (IF Last(ilog).resp.text = <<>> THEN DefaultText
                        ELSE Last(ilog).resp.text)
             ELSE ~Includes(TheValue(iresult).val, FallbackMarker)

C5_Witness ==
  /\ ipc = "done"
  /\ PrimaryExhausted
  /\ Len(ilog) > MaxRetries + 1
  /\ Last(ilog).phase = "fallback"
  /\ Last(ilog).resp.ok
  /\ iresult = Some([ok |-> TRUE, val |-> <<FallbackMarker, "T1">>])

\* C6: an authentication error of the underlying call ends the invocation:
\* no call follows it, on the primary or on the fallback model, and the
\* caller receives that authentication error.
C6_AuthErrorPropagates ==
  \A i \in 1..Len(ilog) :
    (~ilog[i].resp.ok /\ ilog[i].resp.msg = ErrAuth) =>
       /\ i = Len(ilog)
       /\ ipc = "done"
       /\ iresult = Some([ok |-> FALSE, val |-> ErrAuth])


\* ------------------------------------------------------------------------
\* Properties of the quick, comparison and update workflows
\* ------------------------------------------------------------------------

\* the sessions of the store the saves of a user go to
StoreOf(userId) ==
  IF IsDurable(userId) THEN remoteStore
  ELSE {localStore[i] : i \in 1..Len(localStore)}
\* that of the current user
OwnerStore == StoreOf(user)

\* the step in which the saveSession call of an analysis resolves with a
\* session
AnalysisSaved == pc = "save" /\ pc' = "idle" /\ runEnd' = "completed"

\* both report slots of an engines map are Success with the given text
Mirrored(eng, text) ==
  /\ eng["comprehensive"].status = "success"
  /\ eng["comprehensive"].result = Some(text)
  /\ eng["synthesizer"].status = "success"
  /\ eng["synthesizer"].result = Some(text)

\* the text the latest stage call returned
ReturnedValue == TheValue(lastOutcome).val

\* C11: when the single call of the quick workflow succeeds with text T,
\* the comprehensive and the synthesizer runs are both Success with result
\* T, in the in-memory map and in the map handed to saveSession as the call
\* returns, and then in the session that is saved, in the history and in
\* the store of the user who started the analysis.
C11_QuickMirrors ==
  [][/\ (pc = "quick" /\ pc' = "save")
          => /\ Mirrored(engines', ReturnedValue')
             /\ Mirrored(Last(saveLog').engines, ReturnedValue')
     /\ (AnalysisSaved /\ Len(invoked) = 1)
          => /\ Mirrored(history'[1].engines, ReturnedValue)
             /\ \E s \in StoreOf(cl.user)' : s.id = currentSessionId'
             /\ \A s \in StoreOf(cl.user)' :
                  s.id = currentSessionId' => Mirrored(s.engines, ReturnedValue)]_vars

\* a quick analysis has been saved while an update, started on a session
\* opened during the analysis, is in flight
C11_Witness ==
  /\ pc = "idle"
  /\ runEnd = "completed"
  /\ invoked = <<"comprehensive">>
  /\ stockSymbol = SymReliance
  /\ upc # "idle"
  /\ isUpdating
  /\ currentSessionId # NoId
  /\ Mirrored(engines, <<"T1">>)
  /\ Mirrored(history[1].engines, <<"T1">>)
  /\ \E s \in OwnerStore : s.id = currentSessionId /\ Mirrored(s.engines, <<"T1">>)

\* C12: a comparison run whose three calls succeeded saves exactly one
\* session, labelled 'A vs B' with the two symbols normalized, and the
\* history grows by exactly one entry when it had none with that label.
C12_ComparisonSavedOnce ==
  [][(AnalysisSaved /\ Len(invoked) = 3)
       => /\ Len(saveLog) = 1
          /\ history'[1].symbol = ComparisonLabel(cl.stockSymbol)
          /\ (\A i \in 1..Len(history) : history[i].symbol # history'[1].symbol)
               => Len(history') = Len(history) + 1]_vars

\* C13: the session saved by an analysis has an id that no session of the
\* history or of the owner's store had before the save.
C13_NewAnalysisNewId ==
  [][AnalysisSaved
       => /\ \A i \in 1..Len(history) : history[i].id # currentSessionId'
          /\ \A s \in StoreOf(cl.user) : s.id # currentSessionId']_vars

\* C14: the update workflow issues its first remote call only for a caller
\* with a durable identity and a session that has a synthesized result.
C14_UpdateNeedsReportAndIdentity ==
  (uinvoked # <<>> /\ Head(uinvoked) = "updater")
    => /\ IsDurable(ucl.user)
       /\ ucl.engines["synthesizer"].result # None


\* ------------------------------------------------------------------------
\* Properties of the session store and of the history kept by the caller
\* ------------------------------------------------------------------------

\* the kinds of step of the session management: a saveSession call
\* resolves and its caller reconciles, the answer of a getSessions call
\* arrives, handleDeleteSession is invoked, its deleteSession call settles
SaveStep == Len(calls') < Len(calls) /\ sret'.op = "save"
ListStep == Len(calls') < Len(calls) /\ sret'.op = "list"
DeleteStartStep == Len(dels') > Len(dels)
DeleteReturnStep == Len(dels') < Len(dels)

\* the session a successful saveSession returned
Returned == TheValue(sret.session)

\* positions of the sessions with a given id / label in a list
WithId(sessions, id) == {i \in 1..Len(sessions) : sessions[i].id = id}
WithLabel(sessions, symbol) == {i \in 1..Len(sessions) : sessions[i].symbol = symbol}

\* C15: a successful saveSession with existingId set returns a session with
\* that id, on both backends, and the owner's store then holds exactly one
\* session with that id: the one returned (the latest content), keys
\* without a value left aside.
C15_ExistingIdKept ==
  [][(SaveStep /\ sret'.ok /\ sret'.existingId # NoId)
       => /\ Returned'.id = sret'.existingId
          /\ \E k \in 1..Len(calls) :
               calls' = RemoveAt(calls, k) /\ Returned'.timestamp = calls[k].call.now
          /\ {JsonSession(s) : s \in {d \in OwnerStore' : d.id = sret'.existingId}}
               = {JsonSession(Returned')}
          /\ ~IsDurable(user) => Cardinality(WithId(localStore', sret'.existingId)) = 1]_vars

\* C16: after a successful save of a new session (no existingId) and the
\* reconciliation of handleAnalyze, the history has exactly one entry with
\* the session's label, the new session, at its head, and behind it every
\* earlier entry of another id and another label, in the earlier order.
C16_DedupOnSave ==
  [][(SaveStep /\ sret'.ok /\ sret'.existingId = NoId)
       => /\ history'[1] = Returned'
          /\ WithLabel(history', Returned'.symbol) = {1}
          /\ Tail(history') =
               SelectSeq(history, LAMBDA h : h.id # Returned'.id /\ h.symbol # Returned'.symbol)]_vars

\* two saves of new sessions with the same label: the first is still in
\* the store, only the second is in the history
C16_Witness ==
  /\ sops = 2
  /\ sret.op = "save"
  /\ sret.ok
  /\ sret.existingId = NoId
  /\ \E s \in OwnerStore : s.id = Returned.id - 1 /\ s.symbol = Returned.symbol
  /\ history[1] = Returned
  /\ WithLabel(history, Returned.symbol) = {1}

\* C17: handleDeleteSession takes the session out of the history before
\* the backend call returns, leaving the store as it is; when the call
\* fails the history is again exactly what it was when the handler was
\* invoked and the error is reported.
C17_DeleteRollback ==
  [][/\ DeleteStartStep
          => /\ history' = SelectSeq(history, LAMBDA h : h.id # Last(dels').id)
             /\ Last(dels').originalHistory = history
             /\ localStore' = localStore
             /\ remoteStore' = remoteStore
     /\ (DeleteReturnStep /\ ~sret'.ok)
          => /\ \E k \in 1..Len(dels) :
                  /\ dels[k].id = sret'.existingId
                  /\ history' = dels[k].originalHistory
                  /\ dels' = SubSeq(dels, 1, k - 1) \o SubSeq(dels, k + 1, Len(dels))
             /\ globalError' = Some(MsgDeleteFailed)
             /\ localStore' = localStore
             /\ remoteStore' = remoteStore]_vars

\* a failed delete of the oldest of 20 sessions: it is back in last place
C17_Witness ==
  /\ sret.op = "delete"
  /\ ~sret.ok
  /\ dels = <<>>
  /\ sops = 1
  /\ globalError = Some(MsgDeleteFailed)
  /\ Len(history) = LocalCap
  /\ history[LocalCap].id = sret.existingId
  /\ history = localStore

\* C18: a save in which a read or a write of the backend fails returns null
\* and a getSessions whose read fails returns the empty sequence; after a
\* null the history, the current session id and the stores are what they
\* were.
C18_FailuresAbsorbed ==
  [][/\ (SaveStep /\ sret'.failed)
          => /\ sret'.session = None
             /\ history' = history
             /\ currentSessionId' = currentSessionId
             /\ localStore' = localStore
             /\ remoteStore' = remoteStore
     /\ (ListStep /\ sret'.failed)
          => /\ sret'.list = <<>>
             /\ history' = <<>>]_vars

\* C19: the local list never holds more than 20 sessions, and a save under
\* an id that is in the list replaces that entry where it is, the other
\* entries and the length staying as they were.
C19_LocalCap ==
  [][/\ Len(localStore') <= LocalCap
     /\ (SaveStep /\ sret'.ok /\ ~IsDurable(user) /\ WithId(localStore, Returned'.id) # {})
          => /\ Len(localStore') = Len(localStore)
             /\ \A i \in 1..Len(localStore) :
                  localStore'[i] = IF localStore[i].id = Returned'.id
                                     THEN JsonSession(Returned')
                                     ELSE localStore[i]]_vars

\* the sessions of a list
Entries(sessions) == {sessions[i] : i \in 1..Len(sessions)}

\* C20: when a save makes the local list exceed the cap, the entry that
\* leaves the list is the oldest one: no session that stays has a smaller
\* timestamp.
C20_OldestEvicted ==
  [][(SaveStep /\ sret'.ok /\ ~IsDurable(user))
       => \A e \in Entries(localStore) :
            (WithId(localStore', e.id) = {})
              => \A r \in Entries(localStore') : e.timestamp <= r.timestamp]_vars

\* a list is ordered newest first by timestamp
NewestFirst(sessions) ==
  \A i \in 1..Len(sessions), j \in 1..Len(sessions) :
    i < j => sessions[i].timestamp >= sessions[j].timestamp

\* C21: the sequence a successful getSessions returns is ordered newest
\* first by timestamp, on the durable and on the local backend, whatever
\* saves, re-saves and deletes came before.
C21_ListNewestFirst ==
  [][(ListStep /\ sret'.ok) => NewestFirst(sret'.list)]_vars

\* no two entries of a list have the same id
UniqueIds(sessions) ==
  \A i \in 1..Len(sessions), j \in 1..Len(sessions) :
    sessions[i].id = sessions[j].id => i = j

\* C22: no two sessions of the owner have the same id, in the local list,
\* in the durable collection and in the in-memory history, after any
\* sequence of loads, saves of new sessions, updates and deletes.
C22_UniqueIds ==
  /\ UniqueIds(localStore)
  /\ \A d \in remoteStore, e \in remoteStore : d.id = e.id => d = e
  /\ UniqueIds(history)


\* ------------------------------------------------------------------------
\* Further properties of runEngine / runCustomPrompt
\* ------------------------------------------------------------------------

\* the calls of the invocation made in a phase, in order
CallsIn(phase) == SelectSeq(ilog, LAMBDA c : c.phase = phase)

\* the invocation has ended with an error after at least one call
FailedInvocation ==
  /\ ipc = "done"
  /\ ilog # <<>>
  /\ iresult # None
  /\ ~TheValue(iresult).ok

\* the error the classification of the claim gives for a failed invocation
ClassifiedError ==
  LET primaryErr == Last(CallsIn("primary")).resp.msg
  IN IF CallsIn("fallback") # <<>>
       THEN IF IsQuotaError(primaryErr) /\ IsQuotaError(Last(ilog).resp.msg)
              THEN MsgQuotaBoth
              ELSE Last(ilog).resp.msg
       ELSE IF IsQuotaError(primaryErr) /\ iprimary = FALLBACK_MODEL
              THEN MsgQuota
              ELSE primaryErr

\* C23: a failed invocation reports 'quota exceeded on both models' when
\* the primary and the fallback attempt both failed with a quota error,
\* the plain 'quota exceeded' when the primary failed with a quota error
\* and there is no distinct fallback model, and otherwise the error of the
\* failing call, unchanged.
C23_FailureClassification ==
  FailedInvocation => TheValue(iresult).val = ClassifiedError

\* C24: a transient network failure of the underlying call is retried like
\* a rate limit: while retries remain in the running phase, the invocation
\* does not end on such a failure but goes on to a further call.
C24_NetworkRetried ==
  (/\ ilog # <<>>
   /\ ~Last(ilog).resp.ok
   /\ Last(ilog).resp.msg = ErrNetwork
   /\ Len(CallsIn(Last(ilog).phase)) <= MaxRetries)
    => ipc # "done"

\* the calls of an invocation: at most 1 + MaxRetries on the primary model,
\* then at most 1 + MaxRetries on the fallback model, which is another model
RetryBound ==
  /\ Len(CallsIn("primary")) <= 1 + MaxRetries
  /\ Len(CallsIn("fallback")) <= 1 + MaxRetries
  /\ \A i \in 1..Len(ilog), j \in 1..Len(ilog) :
       (i < j /\ ilog[i].phase = "fallback") => ilog[j].phase = "fallback"
  /\ \A i \in 1..Len(ilog) :
       /\ ilog[i].phase = "primary" => ilog[i].model = iprimary
       /\ ilog[i].phase = "fallback" =>
            (ilog[i].model = FALLBACK_MODEL /\ iprimary # FALLBACK_MODEL)
  /\ Len(iwaits) <= 2 * MaxRetries
  /\ ipc = "done" => iresult # None

\* C25: an invocation makes at most 4 calls on the primary model and at most
\* 4 on the fallback model, the fallback attempt comes once, after the
\* primary one and only for another model, and every invocation that has
\* started ends with a result or an error.
C25_BoundedAndTerminates ==
  /\ []RetryBound
  /\ (ipc \in {"calling", "backoff"}) ~> (ipc = "done" /\ iresult # None)

\* both retry loops used up: 4 calls on each model
C25_Witness ==
  /\ ipc = "done"
  /\ Len(CallsIn("primary")) = 1 + MaxRetries
  /\ Len(CallsIn("fallback")) = 1 + MaxRetries
  /\ iresult = Some([ok |-> FALSE, val |-> MsgQuotaBoth])

\* a generateContent call is issued in this step
CallIssued == iflight' > iflight \/ (iflight' = iflight /\ Len(ilog') > Len(ilog))

\* C26: an invocation has at most one underlying call in flight: none
\* during a delay or after the end, and a retry or a fallback call is
\* issued only in a step that leaves no other call of the invocation
\* unsettled (after the delay, or as the previous call returns).
C26_OneCallInFlight ==
  [][/\ iflight' \in {0, 1}
     /\ (ipc' \in {"backoff", "done"}) => iflight' = 0
     /\ CallIssued =>
          (iflight' = 1 /\ (ipc = "calling" => Len(ilog') = Len(ilog) + 1))]_vars

\* a retry and the fallback call have been issued, the fallback is in flight
C26_Witness ==
  /\ ipc = "calling"
  /\ iflight = 1
  /\ iphase = "fallback"
  /\ Len(CallsIn("primary")) = 1 + MaxRetries
  /\ Len(CallsIn("fallback")) = 1


\* ------------------------------------------------------------------------
\* Properties of overlapping workflows
\* ------------------------------------------------------------------------

\* a handler passes its guards in this step: it issues its first stage call
WorkflowStarts == (pc = "idle" /\ pc' # "idle") \/ (upc = "idle" /\ upc' # "idle")

\* C27: while an analysis or an update is running (isAnalyzing or
\* isUpdating), no invocation of handleAnalyze or handleUpdateReport gets
\* past its guards: none issues a stage call or writes the engines map.
C27_OneWorkflowInFlight ==
  [][(isAnalyzing \/ isUpdating) => ~WorkflowStarts]_vars


\* ------------------------------------------------------------------------
\* Properties of the map handed to saveSession
\* ------------------------------------------------------------------------

\* the engines invoked in the current run
RanInRun == {invoked[i] : i \in 1..Len(invoked)}

\* C28: the engines map a deep analysis hands to saveSession is the final
\* map of that run: every engine that ran is saved with the outcome of its
\* run (Success or Error, never Idle or Loading) and every engine that did
\* not run is saved as the initial Idle entry, with nothing of an earlier
\* run or of a loaded session.
C28_SavedMapIsFinalMap ==
  (pc = "save" /\ scanMode = "deep" /\ saveLog # <<>>) =>
    \A e \in EngineIds :
      IF e \in RanInRun
        THEN Last(saveLog).engines[e].status \in {"success", "error"}
        ELSE Last(saveLog).engines[e] = buildInitialState[e]


\* ------------------------------------------------------------------------
\* Properties of extractMetadata and of the sources of a call
\* ------------------------------------------------------------------------

\* the lines of the text extractMetadata reads
ArgLines == SplitLines(IF parg = None THEN <<>> ELSE TheValue(parg))

\* a text without markers and without a content-bearing line
NothingToExtract ==
  /\ ~HasMarker(ArgLines, DecisionMarker)
  /\ ~HasMarker(ArgLines, ThesisMarker)
  /\ \A k \in 1..Len(ArgLines) : ~ContentLine(ArgLines[k])

\* C29: for a synthesized text, absent or empty ones included, that has no
\* final-decision line, no one-line-thesis line and no content line longer
\* than 20 characters, extractMetadata returns the verdict 'ANALYZED' and
\* the empty summary.
C29_MetadataDefaults ==
  (pfn = "extractMetadata" /\ pout # None /\ NothingToExtract) =>
    TheValue(pout) = [verdict |-> <<"ANALYZED">>, summary |-> <<>>]

\* the first chunk of every uri, in the order of the chunks
RECURSIVE FirstPerUri(_)
FirstPerUri(chunks) ==
  IF chunks = <<>> THEN <<>>
  ELSE LET rest == FirstPerUri(SubSeq(chunks, 1, Len(chunks) - 1))
           c == chunks[Len(chunks)]
       IN IF \E i \in 1..Len(rest) : rest[i].uri = TheValue(c.uri)
            THEN rest
            ELSE Append(rest, [uri |-> TheValue(c.uri), title |-> TheValue(c.title)])

\* C30: the sources a call returns have pairwise different uris, and they
\* are the first occurrences of the uris among the grounding chunks that
\* have a uri and a title, in their order.
C30_SourcesDeduplicated ==
  (pfn = "sources" /\ pout # None) =>
    LET sources == TheValue(pout)
        usable == IF parg = None THEN <<>>
                  ELSE SelectSeq(TheValue(parg),
                                 LAMBDA c : c.uri # None /\ c.title # None)
    IN /\ \A i \in 1..Len(sources), j \in 1..Len(sources) :
            sources[i].uri = sources[j].uri => i = j
       /\ sources = FirstPerUri(usable)


\* ------------------------------------------------------------------------
\* Properties of the order of the stage calls
\* ------------------------------------------------------------------------

\* the stage calls of a deep analysis, in the order of the handler
DeepStages == <<"planner", "librarian">> \o workerIds \o <<"synthesizer">>

\* a deep analysis is in flight
DeepInFlight == pc # "idle" /\ invoked # <<>> /\ invoked[1] = "planner"

\* the engines of the deep analysis that are shown as Loading
LoadingStages ==
  {k \in 1..Len(DeepStages) : engines[DeepStages[k]].status = "loading"}

\* a step of a deep analysis that issues the next stage call
NextStageIssued ==
  /\ DeepInFlight
  /\ Len(invoked') = Len(invoked) + 1

\* C31: the stage calls of a deep analysis are issued in the order planner,
\* librarian, business, quant, forensic, valuation, technical, custom,
\* synthesizer; a stage call is issued only when the previous call has
\* returned (Success or Error) and the delay after it has elapsed; and at
\* no moment of the analysis two of these engines are Loading.
C31_DeepOrdering ==
  /\ [](DeepInFlight =>
          /\ Len(invoked) <= Len(DeepStages)
          /\ invoked = SubSeq(DeepStages, 1, Len(invoked))
          /\ Cardinality(LoadingStages) <= 1)
  /\ [][NextStageIssued =>
          /\ pc \in {"plannerDelay", "librarianDelay", "workerDelay"}
          /\ lastOutcome # None]_vars

\* the stage calls of a comparison, in the order of the handler
CmpStages == <<"comprehensive", "comprehensive", "customPrompt">>

\* the number of stage calls issued at each position of a comparison
CmpIssuedAt(p) ==
  CASE p \in {"cmpA", "cmpDelayA"} -> 1
    [] p \in {"cmpB", "cmpDelayB"} -> 2
    [] p = "cmpC" -> 3

\* a step in which the stage call of a comparison returns with an error
CmpStageFails ==
  /\ pc \in {"cmpA", "cmpB", "cmpC"}
  /\ pc' # pc
  /\ lastOutcome' # None
  /\ ~TheValue(lastOutcome').ok

\* C32: a comparison issues its calls in the order analysis of A, delay,
\* analysis of B, delay, comparison synthesis, each later call only after
\* the previous one succeeded and its delay elapsed; when a stage fails no
\* later stage is invoked, nothing is saved, and the workflow ends with
\* that stage's error as the global error message.
C32_ComparisonOrderAndAbort ==
  [][/\ pc' \in {"cmpA", "cmpDelayA", "cmpB", "cmpDelayB", "cmpC"} =>
          invoked' = SubSeq(CmpStages, 1, CmpIssuedAt(pc'))
     /\ (pc' \in {"cmpB", "cmpC"} /\ pc' # pc) =>
          /\ pc = (IF pc' = "cmpB" THEN "cmpDelayA" ELSE "cmpDelayB")
          /\ lastOutcome # None
          /\ TheValue(lastOutcome).ok
     /\ CmpStageFails =>
          /\ globalError' = Some(TheValue(lastOutcome').val)
          /\ pc' = "idle"
          /\ ~isAnalyzing'
          /\ runEnd' = "aborted"
          /\ invoked' = invoked
          /\ saveLog' = saveLog
          /\ UNCHANGED <<history, localStore, remoteStore>>]_vars

\* the second analysis of a comparison has failed
C32_Witness ==
  /\ pc = "idle"
  /\ runEnd = "aborted"
  /\ vsMatch(cl.stockSymbol)
  /\ invoked = <<"comprehensive", "comprehensive">>
  /\ engines["planner"].status = "success"
  /\ globalError = Some(MsgQuota)
  /\ saveLog = <<>>


\* ------------------------------------------------------------------------
\* Properties of the end of a workflow
\* ------------------------------------------------------------------------

\* the engine slot a position of a workflow shows as Loading
StageSlot(p) ==
  CASE p \in {"planner", "cmpA"} -> "planner"
    [] p \in {"librarian", "cmpB"} -> "librarian"
    [] p \in {"synth", "cmpC", "updSynth"} -> "synthesizer"
    [] p = "quick" -> "comprehensive"
    [] p = "updater" -> "updater"
    [] p = "worker" -> CurrentWorker
    [] OTHER -> "comprehensive"

\* a step that ends the analysis, or the update, in flight
AnalysisEnds == pc # "idle" /\ pc' = "idle"
UpdateEnds == upc # "idle" /\ upc' = "idle"

\* C33: when a workflow has ended, by completion or by a fatal failure of
\* a stage, no engine of the workflow is left in Loading, and a fatal
\* failure is recorded as Error, with its message, on the slot of the stage
\* that failed.
C33_NothingLeftLoading ==
  [][/\ AnalysisEnds =>
          /\ \A e \in EngineIds \ {"linkedin"} : engines'[e].status # "loading"
          /\ runEnd' = "aborted" =>
               /\ engines'[StageSlot(pc)].status = "error"
               /\ ErrorOf(engines'[StageSlot(pc)]) = Some(TheValue(lastOutcome').val)
     /\ UpdateEnds =>
          /\ \A e \in EngineIds \ {"linkedin"} : engines'[e].status # "loading"
          /\ urunEnd' = "aborted" =>
               /\ engines'[StageSlot(upc)].status = "error"
               /\ ErrorOf(engines'[StageSlot(upc)]) = Some(TheValue(ulastOutcome').val)]_vars


\* ------------------------------------------------------------------------
\* Properties of the waits of withRetry
\* ------------------------------------------------------------------------

\* the waits of one retry loop, in ms
Backoff == <<2000, 4000, 8000>>

\* the number of calls of a phase that were followed by a wait
RetriedIn(phase) ==
  LET n == Len(CallsIn(phase))
  IN IF n = 0 THEN 0
     ELSE IF iphase = phase /\ ipc \in {"backoff", "calling"} THEN n ELSE n - 1

\* a step in which the call in flight returns
CallSettles == ipc = "calling" /\ Len(ilog') = Len(ilog) + 1

\* C34: within one retry loop the waits are 2000, 4000 and 8000 ms, in
\* this order, one before each retry: a retry is issued only when its wait
\* has elapsed, and no wait follows the last permitted attempt or an error
\* that is not a rate-limit error.
C34_ExponentialBackoff ==
  /\ [](/\ RetriedIn("primary") <= 3
        /\ RetriedIn("fallback") <= 3
        /\ iwaits = SubSeq(Backoff, 1, RetriedIn("primary"))
                      \o SubSeq(Backoff, 1, RetriedIn("fallback")))
  /\ [][/\ (CallSettles /\ ipc' = "backoff") =>
             /\ Len(iwaits') = Len(iwaits) + 1
             /\ Last(ilog').resp.msg \in RateLimitErrors
             /\ Len(SelectSeq(ilog', LAMBDA c : c.phase = iphase)) <= 3
        /\ (CallSettles /\ ~Last(ilog').resp.ok
              /\ (Last(ilog').resp.msg \notin RateLimitErrors
                    \/ Len(SelectSeq(ilog', LAMBDA c : c.phase = iphase)) = 4)) =>
             /\ iwaits' = iwaits
             /\ ipc' # "backoff"
        /\ (ipc # "calling" /\ ipc' = "calling" /\ ilog' = ilog /\ ilog # <<>>) =>
             /\ ipc = "backoff"
             /\ iwaits' = iwaits
             /\ iwaits # <<>>]_vars

\* both retry loops of an invocation ran to their last attempt
C34_Witness ==
  /\ ipc = "done"
  /\ iwaits = <<2000, 4000, 8000, 2000, 4000, 8000>>
  /\ Len(ilog) = 8


\* ------------------------------------------------------------------------
\* Properties of the routing of the storage calls
\* ------------------------------------------------------------------------

\* the owner is an authenticated user other than the demo user
DurableOwner == user \notin {NoUser, DemoUser}

\* the sessions of the backend the owner's scope is kept in
ScopeStore ==
  IF DurableOwner THEN remoteStore ELSE {localStore[i] : i \in 1..Len(localStore)}

\* the step in which the backend answers the k-th call in flight, a
\* getSessions
ListRead(k) ==
  /\ calls[k].op = "list"
  /\ calls[k].list = None
  /\ Len(calls') = Len(calls)
  /\ calls'[k].list # None
\* the sessions of the answer
ListAnswer(k) == TheValue(calls[k].list)

\* C35: saveSession, getSessions and deleteSession of one owner work on one
\* backend, the durable store exactly for an authenticated user other than
\* the demo user and the local store otherwise; no call writes the other
\* backend, so no session is copied or moved to it.
C35_OwnerScopeRouting ==
  [][/\ DurableOwner => localStore' = localStore
     /\ ~DurableOwner => remoteStore' = remoteStore
     /\ (SaveStep /\ sret'.ok) =>
          \E s \in ScopeStore' : s.id = Returned'.id /\ s.timestamp = Returned'.timestamp
     /\ \A k \in 1..Len(calls) : (ListRead(k) /\ calls'[k].ok) =>
          {ListAnswer(k)'[i] : i \in 1..Len(ListAnswer(k)')} = ScopeStore
     /\ ListStep => \E k \in 1..Len(calls) :
          calls' = RemoveAt(calls, k) /\ sret'.list = ListAnswer(k)
     /\ (DeleteReturnStep /\ sret'.ok) =>
          \A s \in ScopeStore' : s.id # sret'.existingId]_vars

\* an authenticated user saved a session and listed it from the durable
\* store; the local store was never written
C35_Witness ==
  /\ DurableOwner
  /\ sret.op = "list"
  /\ sret.ok
  /\ Len(sret.list) = 1
  /\ sret.list[1] \in remoteStore
  /\ localStore = <<>>


\* ------------------------------------------------------------------------
\* Properties of the writes of the engines map
\* ------------------------------------------------------------------------

\* the step in which handleUpdateReport writes its final engines map
UpdateFinalWrite == upc = "updSynth" /\ upc' = "updSave"

\* C36: the final write of an update loses no outcome another handler has
\* written to the in-memory map: every slot other than the updater's and
\* the synthesizer's that is Success or Error stays as it is, so a LinkedIn
\* post generated while the update was in flight is still Success with its
\* text after the update has completed.
C36_NoLostEngineUpdate ==
  [][UpdateFinalWrite =>
       \A e \in EngineIds \ {"updater", "synthesizer"} :
         engines[e].status \in {"success", "error"} => engines'[e] = engines[e]]_vars


\* ------------------------------------------------------------------------
\* Properties of interleaved session management
\* ------------------------------------------------------------------------

\* the ids of the sessions of a list
Ids(sessions) == {sessions[i].id : i \in 1..Len(sessions)}

\* the ids whose deleteSession call has not returned yet
PendingIds(pending) == {pending[k].id : k \in 1..Len(pending)}

\* C37: with other deletes pending or sessions saved since the handler was
\* invoked, a delete that succeeds leaves its session out of the history,
\* and the rollback of a delete that fails puts back that session only: it
\* drops no session the history holds and reinstates no other session
\* whose delete has returned.
C37_InterleavedDeletes ==
  [][/\ (DeleteReturnStep /\ sret'.ok) => sret'.existingId \notin Ids(history')
     /\ (DeleteReturnStep /\ ~sret'.ok) =>
          /\ sret'.existingId \in Ids(history')
          /\ Ids(history) \subseteq Ids(history')
          /\ Ids(history') \ Ids(history) \subseteq
               {sret'.existingId} \cup PendingIds(dels')]_vars


\* ------------------------------------------------------------------------
\* Properties relating the in-memory history and the store
\* ------------------------------------------------------------------------

\* the ids of a list, in its order
IdSeq(sessions) == [i \in 1..Len(sessions) |-> sessions[i].id]

\* C38: right after a successful save of a new session and the caller's
\* reconciliation, getSessions for the same owner returns the sessions the
\* in-memory history holds: the same ids in the same order, on both
\* backends.
C38_HistoryRefinesStore ==
  [][(SaveStep /\ sret'.ok /\ sret'.existingId = NoId) =>
       IdSeq(getSessions(user, localStore', remoteStore', TRUE)) = IdSeq(history')]_vars


\* ------------------------------------------------------------------------
\* Termination of the workflows
\* ------------------------------------------------------------------------

\* C39: when every awaited call settles and every delay elapses, an
\* analysis or update that has started ends; the step that ends it clears
\* its in-flight flag (isAnalyzing of an analysis, isUpdating of an update),
\* whether it completed, aborted on a failed stage or its save returned
\* null, and the flag of a workflow is not set while that workflow does not
\* run; all of it whatever the other workflow and the user do meanwhile.
C39_WorkflowTerminates ==
  /\ [](pc = "idle" => ~isAnalyzing)
  /\ [](upc = "idle" => ~isUpdating)
  /\ [][/\ AnalysisEnds => ~isAnalyzing'
        /\ UpdateEnds => ~isUpdating']_vars
  /\ isAnalyzing ~> (pc = "idle" /\ ~isAnalyzing)
  /\ isUpdating ~> (upc = "idle" /\ ~isUpdating)

\* an analysis whose save returned null has ended while an update,
\* started during the analysis, is still in flight
C39_Witness ==
  /\ pc = "idle"
  /\ runEnd = "unsaved"
  /\ Len(saveLog) = 1
  /\ ~isAnalyzing
  /\ upc # "idle"
  /\ isUpdating

====
